---------------------------- MODULE Spec2Model ----------------------------
(***************************************************************************)
(* sa2schema: the pluck engine (sa2schema/pluck.py) and the attribute      *)
(* extraction engine (sa2schema/attribute_info.py, info/sa_extract_info.py)*)
(*                                                                         *)
(* sa_pluck(instance, map, unloaded) walks a live SqlAlchemy instance      *)
(* according to a plucking map and copies the requested attributes into a  *)
(* plain dict.  The model keeps the instances' __dict__ (which attributes  *)
(* are materialized, and with what value), runs sa_pluck as the code runs  *)
(* it, key by key, and records what the call returned or raised, what it   *)
(* warned about and what it lazy-loaded.                                   *)
(*                                                                         *)
(* The mapped classes are those of tests/test_pluck.py (User, Article),    *)
(* with one more to-one relationship, User.draft -> Article, so that two   *)
(* objects can reference each other through to-one relationships.          *)
(*                                                                         *)
(* The second half of the module is the extraction engine: the raw         *)
(* attributes of mapped classes, the registry of AttributeInfo classes     *)
(* with extracts()/matches()/extract(), sa_model_info() and its siblings   *)
(* behind their lru_cache()s.  Specification Spec is a process that plucks,*)
(* SpecInfo a process that inspects classes, SpecSweep a process that      *)
(* inspects one class under many kind sets, SpecThreads threads that call  *)
(* _sa_model_info() together, SpecFilter a process that prepares filters   *)
(* (filter.py), SpecDerive one that derives copies of descriptors,         *)
(* SpecWrap and SpecDecorate a call of wrap_type_into_collection_class()   *)
(* and of @loads_attributes (info/property.py), SpecOrm a process that     *)
(* converts instances with from_orm() (to/pydantic).                       *)
(***************************************************************************)
EXTENDS Integers, Sequences, FiniteSets, TLC

VARIABLES
    dict_,      \* instance_dict() of every instance: loaded key -> value
    pc,         \* "idle" | "called"
    call,       \* the last call: instance, map, unloaded, and dict_ before it
    outcome,    \* what the last call did: raised, ret, log, calls
    cache,      \* the lru_cache of every cached function: entries, oldest first
    computed,   \* the (function, key) pairs whose body has run in this process
    first,      \* what the first call of every sa_model_info(...) gave
    ncalls,     \* the number of extraction calls made so far
    threads,    \* the frame of every thread that is inside _sa_model_info()
    filters,    \* the filter a process passes around: as given, and as it is
    state_info  \* InstanceState.info of every instance, between calls

vars ==
    <<dict_, pc, call, outcome, cache, computed, first, ncalls, threads,
      filters, state_info>>
\* The state of the extraction engine
infoVars == <<cache, computed, first, ncalls>>
\* The state of the processes that do more than pluck and inspect
moreVars == <<threads, filters, state_info>>

---------------------------------------------------------------------------
(* Python values.  Every value has the same shape, so that any two values  *)
(* can be compared: t is the type, n the number of an int or bool, s the   *)
(* text of a str or the name of an object, items the entries of a list     *)
(* (values) or of a dict (key/value pairs, in insertion order).            *)

None == [t |-> "none", n |-> 0, s |-> "", items |-> <<>>]
PyInt(i) == [t |-> "int", n |-> i, s |-> "", items |-> <<>>]
PyBool(b) == [t |-> "bool", n |-> IF b THEN 1 ELSE 0, s |-> "", items |-> <<>>]
PyStr(x) == [t |-> "str", n |-> 0, s |-> x, items |-> <<>>]
PyRef(o) == [t |-> "obj", n |-> 0, s |-> o, items |-> <<>>]
PyList(xs) == [t |-> "list", n |-> 0, s |-> "", items |-> xs]
PyDict(kvs) == [t |-> "dict", n |-> 0, s |-> "", items |-> kvs]
Item(k, v) == [k |-> k, v |-> v]

IsNone(v) == v.t = "none"
IsDict(v) == v.t = "dict"
IsList(v) == v.t = "list"
\* Python's `x == 0`: true of 0 and of False
EqualsZero(v) == v.t \in {"int", "bool"} /\ v.n = 0
\* Python's truth value of x
Truthy(v) ==
    CASE v.t \in {"int", "bool"} -> v.n # 0
      [] v.t \in {"list", "dict"} -> Len(v.items) > 0
      [] v.t = "str" -> v.s # ""
      [] v.t = "none" -> FALSE
      [] OTHER -> TRUE

\* The element of a one-element set; Only({e(x) : x \in {v}}) is e(v) with v
\* evaluated once
Only(S) == CHOOSE x \in S : TRUE

Keys(d) == {d.items[i].k : i \in 1..Len(d.items)}
HasKey(d, k) == k \in Keys(d)
Get(d, k) == LET i == CHOOSE j \in 1..Len(d.items) : d.items[j].k = k IN d.items[i].v

---------------------------------------------------------------------------
(* The mapped classes and the rows behind the instances.                   *)

Instances == {"u", "a1", "a2"}
Model(instance) == IF instance = "u" THEN "User" ELSE "Article"

\* Columns and relationships of a class: what instance_dict() may hold
MappedAttributes(M) ==
    IF M = "User" THEN {"id", "meta", "articles", "draft"}
    ELSE {"title", "author"}

\* {relationship name => uselist}
uselist_relationships(M) ==
    IF M = "User" THEN [articles |-> TRUE, draft |-> FALSE]
    ELSE [author |-> FALSE]

\* The class a relationship leads to
RelationshipTarget(M, key) == IF M = "User" THEN "Article" ELSE "User"

\* Names of descriptor attributes like @property and association_proxy()
descriptor_attributes(M) == IF M = "User" THEN {"prop", "assprox"} ELSE {}

MetaValue ==
    PyDict(<<Item("a", PyInt(1)),
             Item("b", PyDict(<<Item("c", PyInt(2)), Item("d", PyInt(3))>>))>>)

\* The committed row of an instance: what a lazy load of a key brings
Row(instance) ==
    CASE instance = "u" ->
            [id |-> PyInt(17), meta |-> MetaValue,
             articles |-> PyList(<<PyRef("a1"), PyRef("a2")>>), draft |-> PyRef("a1")]
      [] instance = "a1" -> [title |-> PyStr("Python"), author |-> PyRef("u")]
      [] instance = "a2" -> [title |-> PyStr("Rust"), author |-> PyRef("u")]

---------------------------------------------------------------------------
(* Execution state threaded through one call of sa_pluck: d is dict_ as    *)
(* the call has changed it so far, log the warnings and lazy loads in the  *)
(* order they happened, calls the number of sa_pluck invocations.          *)

Event(e, instance, key) == [e |-> e, o |-> instance, k |-> key]

\* What one step hands back: an exception, a `continue`, or a value
Raised(exc, st) == [raised |-> exc, skip |-> FALSE, value |-> None, st |-> st]
Skipped(st) == [raised |-> "", skip |-> TRUE, value |-> None, st |-> st]
Value(v, st) == [raised |-> "", skip |-> FALSE, value |-> v, st |-> st]

Put(f, k, v) == [x \in DOMAIN f \cup {k} |-> IF x = k THEN v ELSE f[x]]

\* The lazy load of an unloaded mapped attribute: the row's value is put
\* into the instance's __dict__ and returned
LazyLoad(instance, key, st) ==
    LET v == Row(instance)[key]
    IN  Value(v, [st EXCEPT !.d[instance] = Put(@, key, v),
                            !.log = Append(@, Event("fetch", instance, key))])

\* Reading a mapped attribute through its instrumented descriptor
InstrumentedGet(instance, key, st) ==
    IF key \in DOMAIN st.d[instance]
    THEN Value(st.d[instance][key], st)
    ELSE LazyLoad(instance, key, st)

\* The titles of a collection of articles, each read through the instance
RECURSIVE ProxyTitles(_, _, _, _)
ProxyTitles(items, i, acc, st) ==
    IF i > Len(items) THEN Value(PyList(acc), st)
    ELSE LET got == InstrumentedGet(items[i].s, "title", st)
         IN  ProxyTitles(items, i + 1, Append(acc, got.value), got.st)

\* Evaluating a descriptor: @property prop returns 'hey';
\* association_proxy('articles', 'title') reads self.articles
DescriptorGet(instance, key, st) ==
    IF key = "prop" THEN Value(PyStr("hey"), st)
    ELSE LET coll == InstrumentedGet(instance, "articles", st)
         IN  IF IsNone(coll.value) THEN Value(PyList(<<>>), coll.st)
             ELSE ProxyTitles(coll.value.items, 1, <<>>, coll.st)

\* Mutant: getattr(instance, key, None), a default instead of AttributeError
getattr_Default(instance, key, st) ==
    IF key \in descriptor_attributes(Model(instance))
    THEN DescriptorGet(instance, key, st)
    ELSE IF key \in MappedAttributes(Model(instance))
    THEN InstrumentedGet(instance, key, st)
    ELSE Value(None, st)

\* getattr(instance, key)
getattr(instance, key, st) ==
    IF key \in descriptor_attributes(Model(instance))
    THEN DescriptorGet(instance, key, st)
    ELSE IF key \in MappedAttributes(Model(instance))
    THEN InstrumentedGet(instance, key, st)
    ELSE Raised("AttributeError", st)

---------------------------------------------------------------------------
(* sa2schema/pluck.py                                                      *)

Policies == {"RAISE", "NONE", "LAZY", "LAZYWARN", "SKIP"}

\* Mutant: a nested dict is taken whole
pluck_dict_Shallow(value, map) ==
    LET sel == SelectSeq(map.items,
                         LAMBDA it : ~EqualsZero(it.v) /\ HasKey(value, it.k))
    IN  PyDict([i \in 1..Len(sel) |-> Item(sel[i].k, Get(value, sel[i].k))])

\* Pluck a dict: the entries of `map` that are not excluded and are in
\* `value`, in the order of `map`; recursion where both sides are dicts
RECURSIVE pluck_dict(_, _)
pluck_dict(value, map) ==
    LET sel == SelectSeq(map.items,
                         LAMBDA it : ~EqualsZero(it.v) /\ HasKey(value, it.k))
    IN  PyDict([i \in 1..Len(sel) |->
                  Item(sel[i].k,
                       IF IsDict(sel[i].v) /\ IsDict(Get(value, sel[i].k))
                       THEN pluck_dict(Get(value, sel[i].k), sel[i].v)
                       ELSE Get(value, sel[i].k))])

\* Mutant: nothing is excluded
IsExcluded_Never(include) == FALSE

\* `if include == 0: continue`
IsExcluded(include) == EqualsZero(include)

\* Mutant: SKIP handled like NONE
UnloadedValue_SkipAsNone(instance, key, unloaded, st) ==
    CASE unloaded \in {"NONE", "SKIP"} -> Value(None, st)
      [] unloaded = "LAZY" -> getattr(instance, key, st)
      [] unloaded = "LAZYWARN" ->
            getattr(instance, key,
                    [st EXCEPT !.log = Append(@, Event("warn", instance, key))])
      [] unloaded = "RAISE" -> Raised("AttributeError", st)
      [] OTHER -> Raised("AssertionError", st)

\* Mutant: LAZYWARN warns after the load instead of before it
UnloadedValue_WarnAfter(instance, key, unloaded, st) ==
    CASE unloaded = "NONE" -> Value(None, st)
      [] unloaded = "LAZY" -> getattr(instance, key, st)
      [] unloaded = "LAZYWARN" ->
            Only({ [r EXCEPT !.st.log = Append(@, Event("warn", instance, key))] :
                   r \in {getattr(instance, key, st)} })
      [] unloaded = "SKIP" -> Skipped(st)
      [] unloaded = "RAISE" -> Raised("AttributeError", st)
      [] OTHER -> Raised("AssertionError", st)

\* The value of a key that is neither in __dict__ nor a descriptor
UnloadedValue(instance, key, unloaded, st) ==
    CASE unloaded = "NONE" -> Value(None, st)
      [] unloaded = "LAZY" -> getattr(instance, key, st)
      [] unloaded = "LAZYWARN" ->
            getattr(instance, key,
                    [st EXCEPT !.log = Append(@, Event("warn", instance, key))])
      [] unloaded = "SKIP" -> Skipped(st)
      [] unloaded = "RAISE" -> Raised("AttributeError", st)
      [] OTHER -> Raised("AssertionError", st)

\* "Get the value"
GetValue(instance, key, unloaded, st) ==
    IF key \in DOMAIN st.d[instance] THEN Value(st.d[instance][key], st)
    ELSE IF key \in descriptor_attributes(Model(instance))
    THEN getattr(instance, key, st)
    ELSE UnloadedValue(instance, key, unloaded, st)

RECURSIVE sa_pluck(_, _, _, _)

\* [sa_pluck(item, map, unloaded) for item in value]
RECURSIVE PluckEach(_, _, _, _, _, _)
PluckEach(items, i, map, unloaded, acc, st) ==
    IF i > Len(items) THEN Value(PyList(acc), st)
    ELSE Only({ IF r.raised # "" THEN r
                ELSE PluckEach(items, i + 1, map, unloaded, Append(acc, r.value), r.st) :
                r \in {sa_pluck(items[i].s, map, unloaded, st)} })

\* Mutant: the policy is not handed on to the nested calls
pluck_relationship_NonePolicy(key, uselist, value, map, unloaded, st) ==
    IF ~uselist THEN sa_pluck(value.s, map, "NONE", st)
    ELSE PluckEach(value.items, 1, map, "NONE", <<>>, st)

\* Mutant: the collection is plucked from its last element to its first
pluck_relationship_Reversed(key, uselist, value, map, unloaded, st) ==
    IF ~uselist THEN sa_pluck(value.s, map, unloaded, st)
    ELSE PluckEach([i \in 1..Len(value.items) |->
                      value.items[Len(value.items) + 1 - i]],
                   1, map, unloaded, <<>>, st)

\* Mutant: the related object is returned as it is
pluck_relationship_NoRecursion(key, uselist, value, map, unloaded, st) ==
    Value(value, st)

pluck_relationship(key, uselist, value, map, unloaded, st) ==
    IF ~uselist THEN sa_pluck(value.s, map, unloaded, st)
    ELSE PluckEach(value.items, 1, map, unloaded, <<>>, st)

\* Mutant: a relationship without a value is None, to-many or not
RelationshipValue_NullAsNone(key, uselist, value, include, unloaded, st) ==
    IF IsNone(value) THEN Value(None, st)
    ELSE IF ~Truthy(include) /\ uselist THEN Value(PyList(<<>>), st)
    ELSE pluck_relationship(key, uselist, value, include, unloaded, st)

\* What goes into ret[key] for a relationship key
RelationshipValue(key, uselist, value, include, unloaded, st) ==
    IF IsNone(value) THEN Value(IF uselist THEN PyList(<<>>) ELSE None, st)
    ELSE IF ~Truthy(include) /\ uselist THEN Value(PyList(<<>>), st)
    ELSE pluck_relationship(key, uselist, value, include, unloaded, st)

\* What goes into ret[key]: relationship, JSON, or the value itself
PluckedValue(instance, key, include, value, unloaded, st) ==
    LET rel_uses_list == uselist_relationships(Model(instance))
    IN  IF key \in DOMAIN rel_uses_list
        THEN RelationshipValue(key, rel_uses_list[key], value, include, unloaded, st)
        ELSE IF IsDict(value) /\ IsDict(include)
        THEN Value(pluck_dict(value, include), st)
        ELSE Value(value, st)

\* One round of `for key, include in map.items()`
PluckKey(instance, key, include, unloaded, st) ==
    IF IsExcluded(include) THEN Skipped(st)
    ELSE Only({ IF got.raised # "" \/ got.skip THEN got
                ELSE PluckedValue(instance, key, include, got.value, unloaded, got.st) :
                got \in {GetValue(instance, key, unloaded, st)} })

RECURSIVE PluckLoop(_, _, _, _, _, _)
PluckLoop(instance, items, i, unloaded, ret, st) ==
    IF i > Len(items) THEN Value(PyDict(ret), st)
    ELSE Only({ IF r.raised # "" THEN Raised(r.raised, r.st)
                ELSE PluckLoop(instance, items, i + 1, unloaded,
                               IF r.skip THEN ret
                               ELSE Append(ret, Item(items[i].k, r.value)),
                               r.st) :
                r \in {PluckKey(instance, items[i].k, items[i].v, unloaded, st)} })

\* Mutant: a map that is no dict is taken for an empty one
sa_pluck_FlagAsEmptyMap(instance, map, unloaded, st) ==
    LET entered == [st EXCEPT !.calls = @ + 1]
    IN  IF ~IsDict(map) THEN Value(PyDict(<<>>), entered)
        ELSE PluckLoop(instance, map.items, 1, unloaded, <<>>, entered)

\* sa_pluck(instance, map, unloaded); `map.items()` of an int raises
sa_pluck(instance, map, unloaded, st) ==
    LET entered == [st EXCEPT !.calls = @ + 1]
    IN  IF ~IsDict(map) THEN Raised("AttributeError", entered)
        ELSE PluckLoop(instance, map.items, 1, unloaded, <<>>, entered)

---------------------------------------------------------------------------
(* The plucking maps the calls are made with.                              *)

\* Nesting depth of the plucking maps that follow relationships
MaxDepth == 3

Flag0 == PyInt(0)
Flag1 == PyInt(1)
Map1(k, v) == PyDict(<<Item(k, v)>>)
Map2(k1, v1, k2, v2) == PyDict(<<Item(k1, v1), Item(k2, v2)>>)

\* Maps that do not go into a relationship
FlatMaps(M) ==
    IF M = "User" THEN
        { PyDict(<<>>),
          Map1("id", Flag0), Map1("id", Flag1), Map1("id", PyBool(FALSE)),
          Map2("id", Flag1, "meta", Flag1), Map2("id", Flag0, "meta", Flag1),
          Map2("meta", Flag1, "id", Flag1),
          Map1("INVALID", Flag1), Map2("id", Flag1, "INVALID", Flag1),
          Map2("INVALID", Flag0, "id", Flag1),
          Map1("meta", Map1("a", Flag1)), Map1("meta", Map1("b", Flag1)),
          Map1("meta", Map1("b", Map1("c", Flag1))),
          Map1("meta", Map1("INVALID", Flag1)),
          Map1("meta", Map1("a", Map1("NONDICT", Flag1))),
          Map1("meta", Map2("a", Flag0, "b", Map2("d", Flag1, "c", Flag0))),
          Map1("meta", PyDict(<<>>)),
          Map1("id", Map1("a", Flag1)),
          Map1("prop", Flag1), Map1("assprox", Flag1),
          Map2("assprox", Flag1, "articles", Map1("title", Flag1)),
          Map1("articles", Flag1), Map1("draft", Flag1),
          Map2("articles", Flag0, "draft", Flag0) }
    ELSE
        { PyDict(<<>>),
          Map1("title", Flag1), Map1("title", Flag0),
          Map2("title", Flag1, "INVALID", Flag1), Map1("INVALID", Flag1),
          Map1("author", Flag1), Map2("title", Flag1, "author", Flag0) }

\* Flat maps used below a relationship
SubFlatMaps(M) ==
    IF M = "User" THEN
        { PyDict(<<>>), Map1("id", Flag1), Map2("id", Flag1, "meta", Flag1),
          Map1("INVALID", Flag1), Map1("articles", Flag1), Map1("draft", Flag1) }
    ELSE FlatMaps(M)

\* Maps that go d levels deep through relationships
RECURSIVE NestedMaps(_, _)
NestedMaps(M, d) ==
    IF d <= 1 THEN {}
    ELSE UNION { { Map1(rel, sub) :
                     sub \in SubFlatMaps(RelationshipTarget(M, rel))
                               \cup NestedMaps(RelationshipTarget(M, rel), d - 1) } :
                 rel \in DOMAIN uselist_relationships(M) }

\* The same with another key plucked before the relationship
WithPrefix(maps) == { PyDict(<<Item("id", Flag1)>> \o m.items) : m \in maps }

UserMaps ==
    FlatMaps("User") \cup NestedMaps("User", MaxDepth)
                     \cup WithPrefix(NestedMaps("User", MaxDepth))
ArticleMaps == FlatMaps("Article") \cup NestedMaps("Article", MaxDepth)
PluckMaps(instance) == IF Model(instance) = "User" THEN UserMaps ELSE ArticleMaps

---------------------------------------------------------------------------
(* The state machine.                                                      *)

NoDict == [x \in {} |-> None]
Fresh == [o \in Instances |-> NoDict]
NoCall == [instance |-> "", map |-> None, unloaded |-> "", pre |-> Fresh]
NoOutcome == [raised |-> "", ret |-> None, log |-> <<>>, calls |-> 0]
\* No cached function has been called
NoCache == [f \in {} |-> <<>>]
\* No thread has been started
NoThreads == <<>>
\* No filter is passed around
NoFilters == <<>>
\* InstanceState.info of new instances: no key that marks an instance as
\* being parsed by a schema class, no set of excluded names
NoStateInfo ==
    [o \in Instances |->
        [markers |-> {}, excluded |-> [present |-> FALSE, names |-> {}]]]

\* The values the tests commit to an attribute
CommittedValues(instance, key) ==
    CASE key = "articles" ->
            {None, PyList(<<>>), PyList(<<PyRef("a1"), PyRef("a2")>>)}
      [] key = "draft" -> {None, Row(instance)[key]}
      [] OTHER -> {Row(instance)[key]}

\* The instances whose state the tests set
Settable == {<<"u", "id">>, <<"u", "meta">>, <<"u", "articles">>, <<"u", "draft">>,
             <<"a1", "title">>, <<"a1", "author">>, <<"a2", "title">>}

Init ==
    /\ dict_ = Fresh
    /\ pc = "idle"
    /\ call = NoCall
    /\ outcome = NoOutcome
    /\ cache = NoCache
    /\ computed = {}
    /\ first = NoCache
    /\ ncalls = 0
    /\ threads = NoThreads
    /\ filters = NoFilters
    /\ state_info = NoStateInfo

\* set_committed_value(obj, k, v)
SetCommitted(instance, key, v) ==
    /\ pc = "idle"
    /\ key \notin DOMAIN dict_[instance]
    /\ dict_' = [dict_ EXCEPT ![instance] = Put(@, key, v)]
    /\ UNCHANGED <<pc, call, outcome>>
    /\ UNCHANGED infoVars
    /\ UNCHANGED moreVars

\* sa_pluck(instance, map, unloaded), from the call to its return or raise
Pluck(instance, map, unloaded) ==
    /\ pc = "idle"
    /\ \E r \in {sa_pluck(instance, map, unloaded,
                          [d |-> dict_, log |-> <<>>, calls |-> 0])} :
           /\ dict_' = r.st.d
           /\ outcome' = [raised |-> r.raised, ret |-> r.value,
                          log |-> r.st.log, calls |-> r.st.calls]
    /\ call' = [instance |-> instance, map |-> map, unloaded |-> unloaded,
                pre |-> dict_]
    /\ pc' = "called"
    /\ UNCHANGED infoVars
    /\ UNCHANGED moreVars

\* The caller is done with the result
Discard ==
    /\ pc = "called"
    /\ pc' = "idle"
    /\ call' = NoCall
    /\ outcome' = NoOutcome
    /\ UNCHANGED dict_
    /\ UNCHANGED infoVars
    /\ UNCHANGED moreVars

Next ==
    \/ \E sk \in Settable : \E v \in CommittedValues(sk[1], sk[2]) :
          SetCommitted(sk[1], sk[2], v)
    \/ \E instance \in {"u", "a1"} : \E map \in PluckMaps(instance) :
          \E unloaded \in Policies : Pluck(instance, map, unloaded)
    \/ Discard

Spec == Init /\ [][Next]_vars

---------------------------------------------------------------------------
(* Vocabulary of the properties.                                           *)

\* The bare flags that exclude a key: 0 and False
ZeroFlag(v) == v = PyInt(0) \/ v = PyBool(FALSE)
\* The keys of a plucking map that are not excluded
SelectedKeys(map) == {k \in Keys(map) : ~ZeroFlag(Get(map, k))}
\* A key that names an attribute of the class
RealAttribute(M, k) == k \in MappedAttributes(M) \cup descriptor_attributes(M)
IsRelationship(M, k) == k \in DOMAIN uselist_relationships(M)
Returned == pc = "called" /\ outcome.raised = ""

\* Every key of a result is a selected key of the map it was plucked with,
\* at every level that the map nests
RECURSIVE KeysSelected(_, _)
KeysSelected(ret, map) ==
    /\ IsDict(ret)
    /\ \A k \in Keys(ret) :
          /\ k \in SelectedKeys(map)
          /\ IsDict(Get(map, k)) =>
                CASE IsDict(Get(ret, k)) -> KeysSelected(Get(ret, k), Get(map, k))
                  [] IsList(Get(ret, k)) ->
                        \A i \in 1..Len(Get(ret, k).items) :
                            KeysSelected(Get(ret, k).items[i], Get(map, k))
                  [] OTHER -> TRUE

\* C1: every key of the result is a key of the map whose include is not
\* 0/False, so a key mapped to 0 or False never appears even when it names a
\* materialized attribute; the empty map returns the empty dict, whatever the
\* instance's state and the policy, and leaves the instance alone.
C1_OnlySelectedKeys ==
    /\ Returned => KeysSelected(outcome.ret, call.map)
    /\ pc = "called" /\ call.map = PyDict(<<>>) =>
          /\ outcome.raised = ""
          /\ outcome.ret = PyDict(<<>>)
          /\ dict_ = call.pre

\* C1 witness: a materialized key mapped to 0 next to a key that is plucked
C1_Witness ==
    /\ Returned
    /\ \E k \in Keys(call.map) :
          /\ ZeroFlag(Get(call.map, k))
          /\ k \in DOMAIN call.pre[call.instance]
    /\ outcome.ret # PyDict(<<>>)

RECURSIVE Unmaterialized(_, _, _)
Unmaterialized(instance, map, d) ==
    /\ IsDict(map)
    /\ \E k \in SelectedKeys(map) :
          /\ k \in MappedAttributes(Model(instance))
          /\ \/ k \notin DOMAIN d[instance]
             \/ /\ IsRelationship(Model(instance), k)
                /\ LET v == d[instance][k]
                   IN  CASE IsNone(v) -> FALSE
                         [] IsList(v) ->
                               \E i \in 1..Len(v.items) :
                                   Unmaterialized(v.items[i].s, Get(map, k), d)
                         [] OTHER -> Unmaterialized(v.s, Get(map, k), d)

\* C3: under RAISE, a map that selects, at any nesting depth, a stored
\* attribute that is not materialized makes sa_pluck raise AttributeError:
\* nothing is returned and nothing is loaded.  (Materialization is judged
\* when the key is reached: maps that select the association proxy, whose
\* evaluation itself loads, are left to C11.)
C3_RaiseOnUnloaded ==
    ( /\ pc = "called"
      /\ call.unloaded = "RAISE"
      /\ "assprox" \notin SelectedKeys(call.map)
      /\ Unmaterialized(call.instance, call.map, call.pre) )
    => /\ outcome.raised = "AttributeError"
       /\ outcome.ret = None
       /\ outcome.log = <<>>
       /\ dict_ = call.pre

\* C3 witness: the second article of a loaded collection has no title
\* loaded; the user's id and the first article were plucked before
C3_Witness ==
    /\ pc = "called"
    /\ call.unloaded = "RAISE"
    /\ call.instance = "u"
    /\ call.map = PyDict(<<Item("id", Flag1), Item("articles", Map1("title", Flag1))>>)
    /\ "id" \in DOMAIN call.pre["u"]
    /\ "articles" \in DOMAIN call.pre["u"]
    /\ call.pre["u"]["articles"] = PyList(<<PyRef("a1"), PyRef("a2")>>)
    /\ "title" \in DOMAIN call.pre["a1"]
    /\ "title" \notin DOMAIN call.pre["a2"]
    /\ outcome.raised = "AttributeError"
    /\ outcome.calls = 3

\* The columns whose value is a scalar (neither a relationship nor a mapping)
ScalarAttributes(M) == IF M = "User" THEN {"id"} ELSE {"title"}
\* The map without the key k
Without(map, k) == PyDict(SelectSeq(map.items, LAMBDA it : it.k # k))
\* sa_pluck called again on the instances as they were before the call
Replay(map, unloaded) ==
    sa_pluck(call.instance, map, unloaded,
             [d |-> call.pre, log |-> <<>>, calls |-> 0])

\* C4: a selected scalar attribute that is not materialized is returned as
\* None under NONE; is left out under SKIP, the call then doing exactly what
\* it does for the map without that key; and under LAZY and LAZYWARN is
\* returned with the value the lazy load brought, which is then materialized.
C4_UnloadedScalarByPolicy ==
    pc = "called" =>
       \A k \in SelectedKeys(call.map) \cap ScalarAttributes(Model(call.instance)) :
          k \notin DOMAIN call.pre[call.instance] =>
             /\ call.unloaded = "NONE" /\ outcome.raised = "" =>
                   HasKey(outcome.ret, k) /\ Get(outcome.ret, k) = None
             /\ call.unloaded = "SKIP" =>
                   /\ outcome.raised = "" => ~HasKey(outcome.ret, k)
                   /\ LET other == Replay(Without(call.map, k), "SKIP")
                      IN  /\ other.raised = outcome.raised
                          /\ other.value = outcome.ret
             /\ call.unloaded \in {"LAZY", "LAZYWARN"} /\ outcome.raised = "" =>
                   /\ HasKey(outcome.ret, k)
                   /\ Get(outcome.ret, k) = Row(call.instance)[k]
                   /\ k \in DOMAIN dict_[call.instance]
                   /\ dict_[call.instance][k] = Row(call.instance)[k]

\* C4 witness: {'id': 1, 'meta': 1} under SKIP with id not loaded
C4_Witness ==
    /\ Returned
    /\ call.unloaded = "SKIP"
    /\ call.instance = "u"
    /\ call.map = Map2("id", Flag1, "meta", Flag1)
    /\ "id" \notin DOMAIN call.pre["u"]
    /\ "meta" \in DOMAIN call.pre["u"]
    /\ outcome.ret = Map1("meta", MetaValue)

\* The first key of a map that is not excluded
FirstSelected(map) ==
    LET sel == SelectSeq(map.items, LAMBDA it : ~ZeroFlag(it.v))
    IN  IF Len(sel) = 0 THEN "" ELSE sel[1].k
Warnings(log) == SelectSeq(log, LAMBDA ev : ev.e = "warn")
Fetches(log) == SelectSeq(log, LAMBDA ev : ev.e = "fetch")

\* C5: under LAZYWARN every key that is reached while it is neither in
\* __dict__ nor a descriptor is warned about once, and the warning comes
\* right before the getattr() of that key (which loads it, or raises when the
\* key is no attribute); under LAZY nothing is warned about; and LAZY does to
\* the same instance with the same map what LAZYWARN does: same result or
\* exception, same loads in the same order.
C5_WarnOnceBeforeFetch ==
    /\ pc = "called" /\ call.unloaded = "LAZYWARN" =>
          LET log == outcome.log
          IN  /\ \A i \in 1..Len(log) :
                    log[i].e = "warn" =>
                       /\ log[i].k \notin DOMAIN call.pre[log[i].o]
                       /\ log[i].k \notin descriptor_attributes(Model(log[i].o))
                       /\ \A j \in 1..Len(log) : log[j] = log[i] => j = i
                       /\ IF i < Len(log)
                          THEN log[i + 1] = Event("fetch", log[i].o, log[i].k)
                          ELSE /\ outcome.raised = "AttributeError"
                               /\ ~RealAttribute(Model(log[i].o), log[i].k)
              /\ "assprox" \notin SelectedKeys(call.map) =>
                    \A i \in 1..Len(log) :
                       log[i].e = "fetch" =>
                          i > 1 /\ log[i - 1] = Event("warn", log[i].o, log[i].k)
              /\ LET k == FirstSelected(call.map)
                 IN  ( /\ k # ""
                       /\ k \notin DOMAIN call.pre[call.instance]
                       /\ k \notin descriptor_attributes(Model(call.instance)) )
                     => /\ Len(log) >= 1
                        /\ log[1] = Event("warn", call.instance, k)
              /\ LET lazy == Replay(call.map, "LAZY")
                 IN  /\ lazy.raised = outcome.raised
                     /\ lazy.value = outcome.ret
                     /\ lazy.st.d = dict_
                     /\ lazy.st.log = Fetches(log)
    /\ pc = "called" /\ call.unloaded = "LAZY" => Warnings(outcome.log) = <<>>

\* C5 witness: LAZYWARN loads a relationship and then attributes of its
\* target, each with its own warning
C5_Witness ==
    /\ Returned
    /\ call.unloaded = "LAZYWARN"
    /\ Len(Warnings(outcome.log)) >= 3
    /\ outcome.calls >= 2

\* The nested call that a relationship key makes for one target
NestedPluck(target, include) ==
    sa_pluck(target, include, call.unloaded,
             [d |-> call.pre, log |-> <<>>, calls |-> 0])
\* The policies under which a call changes no instance
Passive == {"RAISE", "NONE", "SKIP"}
\* The relationship keys of the call's map that are selected with a nested
\* map and whose loaded value is not None
LoadedRelationships ==
    {k \in SelectedKeys(call.map) :
        /\ IsRelationship(Model(call.instance), k)
        /\ IsDict(Get(call.map, k))
        /\ k \in DOMAIN call.pre[call.instance]
        /\ ~IsNone(call.pre[call.instance][k])}

\* C6 as claimed: a loaded relationship that is not None yields one nested
\* mapping (to-one), or a list with one nested mapping per element of the
\* collection (to-many), for every nested map, the empty one included.
C6_OneMappingPerElement ==
    Returned =>
       \A k \in LoadedRelationships :
          LET v == call.pre[call.instance][k]
              got == Get(outcome.ret, k)
          IN  IF uselist_relationships(Model(call.instance))[k]
              THEN /\ IsList(got)
                   /\ Len(got.items) = Len(v.items)
                   /\ \A i \in 1..Len(got.items) : IsDict(got.items[i])
              ELSE IsDict(got)

\* C6 as amended: a to-one relationship yields the nested mapping that
\* sa_pluck gives for its target with the nested map and the same policy; a
\* to-many relationship yields, for a nested map that is not empty, the list
\* of those mappings, one per element and in the order of the collection,
\* and for the empty nested map the empty list.
C6_NestedPluckPerElement ==
    Returned =>
       \A k \in LoadedRelationships :
          LET v == call.pre[call.instance][k]
              include == Get(call.map, k)
              got == Get(outcome.ret, k)
              same == call.unloaded \in Passive /\ "assprox" \notin SelectedKeys(call.map)
          IN  IF uselist_relationships(Model(call.instance))[k]
              THEN /\ IsList(got)
                   /\ IF include = PyDict(<<>>) THEN got = PyList(<<>>)
                      ELSE /\ Len(got.items) = Len(v.items)
                           /\ \A i \in 1..Len(got.items) :
                                 /\ IsDict(got.items[i])
                                 /\ same => got.items[i] =
                                               NestedPluck(v.items[i].s, include).value
              ELSE /\ IsDict(got)
                   /\ same => got = NestedPluck(v.s, include).value

\* C6 witness: {'articles': {'title': 1}} with both articles loaded
C6_Witness ==
    /\ Returned
    /\ call.instance = "u"
    /\ call.map = Map1("articles", Map1("title", Flag1))
    /\ "articles" \in DOMAIN call.pre["u"]
    /\ outcome.ret = Map1("articles", PyList(<<Map1("title", PyStr("Python")),
                                               Map1("title", PyStr("Rust"))>>))

\* C7: a selected relationship key whose value is None, loaded as None or
\* not loaded under NONE, yields None (to-one) or the empty list (to-many);
\* no nested call is made, and the key itself raises nothing, whatever it is
\* mapped to.
C7_NullRelationship ==
    ( pc = "called" /\ "assprox" \notin SelectedKeys(call.map) ) =>
       \A k \in SelectedKeys(call.map) :
          ( /\ IsRelationship(Model(call.instance), k)
            /\ IF k \in DOMAIN call.pre[call.instance]
               THEN IsNone(call.pre[call.instance][k])
               ELSE call.unloaded = "NONE" )
          => /\ outcome.raised = "" =>
                   Get(outcome.ret, k) =
                      IF uselist_relationships(Model(call.instance))[k]
                      THEN PyList(<<>>) ELSE None
             /\ outcome.calls = 1
             /\ FirstSelected(call.map) = k => outcome.raised = ""

\* C7 witness: {'articles': {'title': 1}} under NONE, articles not loaded
C7_Witness ==
    /\ Returned
    /\ call.unloaded = "NONE"
    /\ call.map = Map1("articles", Map1("title", Flag1))
    /\ "articles" \notin DOMAIN call.pre["u"]
    /\ outcome.ret = Map1("articles", PyList(<<>>))

RECURSIVE Restricted(_, _, _)
Restricted(result, data, include) ==
    /\ IsDict(result)
    /\ Len(result.items) = Cardinality(Keys(result))
    /\ Keys(result) = Keys(data) \cap SelectedKeys(include)
    /\ \A k \in Keys(result) :
          IF IsDict(Get(data, k)) /\ IsDict(Get(include, k))
          THEN Restricted(Get(result, k), Get(data, k), Get(include, k))
          ELSE Get(result, k) = Get(data, k)

\* C9: a loaded attribute that is no relationship and is selected with a
\* nested map is returned, when its value is a dict, restricted to the
\* entries the nested map selects, recursively; keys of the nested map that
\* the data lacks and nested maps over values that are no dicts are ignored;
\* a value that is no dict is returned as it is.  The policy plays no part:
\* nothing is raised, warned about or loaded.
C9_PluckDict ==
    pc = "called" =>
       \A k \in SelectedKeys(call.map) :
          ( /\ ~IsRelationship(Model(call.instance), k)
            /\ IsDict(Get(call.map, k))
            /\ k \in DOMAIN call.pre[call.instance] )
          => LET data == call.pre[call.instance][k]
             IN  /\ outcome.raised = "" =>
                       IF IsDict(data)
                       THEN Restricted(Get(outcome.ret, k), data, Get(call.map, k))
                       ELSE Get(outcome.ret, k) = data
                 /\ Keys(call.map) = {k} =>
                       /\ outcome.raised = ""
                       /\ outcome.log = <<>>
                       /\ outcome.calls = 1
                       /\ dict_ = call.pre

\* C9 witness: {'meta': {'a': 0, 'b': {'d': 1, 'c': 0}}} gives {'meta': {'b': {'d': 3}}}
C9_Witness ==
    /\ Returned
    /\ call.map = Map1("meta", Map2("a", Flag0, "b", Map2("d", Flag1, "c", Flag0)))
    /\ outcome.ret = Map1("meta", Map1("b", Map1("d", PyInt(3))))

\* Nesting depth of a dict: 1 for a dict that holds no dict
RECURSIVE Depth(_)
Depth(v) ==
    IF ~IsDict(v) THEN 0
    ELSE LET deeper == {Depth(v.items[i].v) : i \in 1..Len(v.items)} \cup {0}
         IN  1 + CHOOSE m \in deeper : \A n \in deeper : n <= m

\* A map that follows to-one relationships only, down to scalar attributes
RECURSIVE ToOneChain(_, _)
ToOneChain(M, map) ==
    /\ IsDict(map)
    /\ \/ /\ Keys(map) \subseteq ScalarAttributes(M)
          /\ \A k \in Keys(map) : Get(map, k) = Flag1
       \/ /\ Len(map.items) = 1
          /\ IsRelationship(M, map.items[1].k)
          /\ ~uselist_relationships(M)[map.items[1].k]
          /\ ToOneChain(RelationshipTarget(M, map.items[1].k), map.items[1].v)

\* u.draft is a1 and a1.author is u, both loaded
CyclePair(d) ==
    /\ "draft" \in DOMAIN d["u"] /\ d["u"]["draft"] = PyRef("a1")
    /\ "author" \in DOMAIN d["a1"] /\ d["a1"]["author"] = PyRef("u")

\* C10: on two instances that reference each other through loaded to-one
\* relationships, a map that follows these relationships D levels deep makes
\* exactly D calls of sa_pluck, one per level of the map, and what it returns
\* is nested exactly D levels deep; it raises only for a scalar that is not
\* loaded under RAISE.
C10_DepthOfMap ==
    ( /\ pc = "called"
      /\ CyclePair(call.pre)
      /\ ToOneChain(Model(call.instance), call.map) )
    => /\ outcome.calls = Depth(call.map)
       /\ outcome.raised = "" => Depth(outcome.ret) = Depth(call.map)
       /\ outcome.raised # "" => call.unloaded = "RAISE"

\* C10 witness: a map that goes from one instance to the other and back
C10_Witness ==
    /\ Returned
    /\ CyclePair(call.pre)
    /\ ToOneChain(Model(call.instance), call.map)
    /\ Depth(call.map) >= 3
    /\ Depth(outcome.ret) = Depth(call.map)
    /\ outcome.calls >= 3

---------------------------------------------------------------------------
\* C11: under RAISE, NONE and SKIP a call of sa_pluck fetches nothing, for
\* every selection map: the log of the call holds no lazy load and the
\* __dict__ of every instance is what it was before the call.
C11_NoFetchUnderPassivePolicies ==
    ( /\ pc = "called"
      /\ call.unloaded \in Passive )
    => /\ Fetches(outcome.log) = <<>>
       /\ dict_ = call.pre

---------------------------------------------------------------------------
(* sa2schema/defs.py: AttributeType, a Flag.  A value is the set of its    *)
(* primitive bits: `a | b` is the union, `a & b` the intersection, and a   *)
(* value is true when it is not empty.                                     *)

\* The primitive flags, in the order auto() numbers them: 1, 2, 4, ...
Flags ==
    <<"COLUMN", "PROPERTY_R", "PROPERTY_W", "HYBRID_PROPERTY_R",
      "HYBRID_PROPERTY_W", "RELATIONSHIP", "DYNAMIC_LOADER",
      "ASSOCIATION_PROXY", "COMPOSITE", "EXPRESSION", "HYBRID_METHOD",
      "APPLICATION_CUSTOM">>

COLUMN == {"COLUMN"}
PROPERTY_R == {"PROPERTY_R"}
PROPERTY_W == {"PROPERTY_W"}
PROPERTY_RW == PROPERTY_R \cup PROPERTY_W
HYBRID_PROPERTY_R == {"HYBRID_PROPERTY_R"}
HYBRID_PROPERTY_W == {"HYBRID_PROPERTY_W"}
HYBRID_PROPERTY_RW == HYBRID_PROPERTY_R \cup HYBRID_PROPERTY_W
RELATIONSHIP == {"RELATIONSHIP"}
DYNAMIC_LOADER == {"DYNAMIC_LOADER"}
ASSOCIATION_PROXY == {"ASSOCIATION_PROXY"}
COMPOSITE == {"COMPOSITE"}
EXPRESSION == {"EXPRESSION"}
HYBRID_METHOD == {"HYBRID_METHOD"}
APPLICATION_CUSTOM == {"APPLICATION_CUSTOM"}
ALL_COLUMNS == COLUMN \cup COMPOSITE \cup EXPRESSION
ALL_PROPERTIES == PROPERTY_RW \cup HYBRID_PROPERTY_RW
ALL_LOCAL_FIELDS == ALL_COLUMNS \cup ALL_PROPERTIES
ALL_RELATIONSHIPS == RELATIONSHIP \cup ASSOCIATION_PROXY
ALL ==
    ALL_LOCAL_FIELDS \cup ALL_RELATIONSHIPS \cup DYNAMIC_LOADER
        \cup HYBRID_METHOD \cup APPLICATION_CUSTOM

\* AttributeType(n): the value whose number is n
AttributeType(n) ==
    {Flags[i] : i \in {j \in 1..Len(Flags) : (n \div (2 ^ (j - 1))) % 2 = 1}}

---------------------------------------------------------------------------
(* Python types (typing).  A type is the sequence of its name and its      *)
(* arguments: <<"str">>, <<"Optional", "str">>, <<"Dict", "Any", "User">>. *)

\* typing.Any
AnyType == <<"Any">>
Type(name) == <<name>>
\* Optional[t]; Optional[Optional[t]] is Optional[t]
Optional(t) == IF Head(t) = "Optional" THEN t ELSE <<"Optional">> \o t
List(t) == <<"List">> \o t
Set(t) == <<"Set">> \o t
Dict(k, v) == <<"Dict">> \o k \o v
Union(a, b) == <<"Union">> \o a \o b

\* is_Optional_type(t): Any, or a Union with NoneType among its arguments
is_Optional_type(t) == t = AnyType \/ Head(t) = "Optional"
\* unwrap_Optional_type(t)
unwrap_Optional_type(t) == IF Head(t) = "Optional" THEN Tail(t) ELSE t

\* sa_type.python_type; NullType has none (NotImplementedError)
python_type(sa_type) ==
    CASE sa_type = "String" -> Type("str")
      [] sa_type = "Integer" -> Type("int")
      [] sa_type = "JSON" -> Type("dict")
      [] sa_type = "Enum" -> Type("EnumType")
      [] OTHER -> <<>>
\* get_type_from_sqlalchemy_type(sa_type)
get_type_from_sqlalchemy_type(sa_type) ==
    IF python_type(sa_type) = <<>> THEN AnyType ELSE python_type(sa_type)

\* Values that are not plain data: the NOT_PROVIDED symbol, a function, a
\* select() and the default generators of a Column
NOT_PROVIDED == [t |-> "symbol", n |-> 0, s |-> "NOT_PROVIDED", items |-> <<>>]
PyFunction == [t |-> "function", n |-> 0, s |-> "lambda", items |-> <<>>]
PySelect == [t |-> "Select", n |-> 0, s |-> "select([1])", items |-> <<>>]
ColumnDefault(arg) == [t |-> "ColumnDefault", n |-> 0, s |-> "", items |-> <<arg>>]
Sequence_(name) == [t |-> "Sequence", n |-> 0, s |-> name, items |-> <<>>]
\* isinstance(v, (Callable, ColumnElement, Selectable))
IsCallableOrSql(v) == v.t \in {"function", "Select"}

---------------------------------------------------------------------------
(* Class attributes as the extraction sees them.  Every attribute has the  *)
(* same fields: py is the Python class of the object found on the mapped   *)
(* class, prop the class of its MapperProperty, expr the class of its      *)
(* expression; fget/fset tell whether a property has the function, ret is  *)
(* the return annotation of the getter (<<>>: not annotated), defaults the *)
(* __defaults__ of the setter; class_ and key tell which object it is: the *)
(* class whose __dict__ holds it and its name there.                       *)

object ==
    [py |-> "object", prop |-> "", expr |-> "", dyn |-> FALSE,
     fget |-> FALSE, fset |-> FALSE, ret |-> <<>>, defaults |-> <<>>,
     sa_type |-> "", nullable |-> TRUE, default |-> None,
     uselist |-> FALSE, viewonly |-> FALSE, target |-> "",
     collection_class |-> "", scalar |-> FALSE, composite_class |-> "",
     class_ |-> "", key |-> ""]

\* sa.Column(type, nullable=, default=), instrumented by the mapper
Column(sa_type, nullable, default) ==
    [object EXCEPT !.py = "InstrumentedAttribute", !.prop = "ColumnProperty",
                   !.expr = "Column", !.sa_type = sa_type,
                   !.nullable = nullable, !.default = default]
\* sa.orm.column_property(expression): the expression gets a label
column_property(sa_type) ==
    [object EXCEPT !.py = "InstrumentedAttribute", !.prop = "ColumnProperty",
                   !.expr = "Label", !.sa_type = sa_type]
\* sa.orm.composite(class, *columns): a proxied attribute
composite(class) ==
    [object EXCEPT !.py = "Proxy", !.prop = "CompositeProperty",
                   !.composite_class = class]
\* sa.orm.synonym(name): a proxied attribute that answers
\* for the property it names
synonym(proxied) ==
    [proxied EXCEPT !.py = "Proxy"]
\* sa.orm.relationship(target, collection_class=, viewonly=)
relationship(target, uselist, collection_class, viewonly) ==
    [object EXCEPT !.py = "InstrumentedAttribute",
                   !.prop = "RelationshipProperty", !.target = target,
                   !.uselist = uselist, !.viewonly = viewonly,
                   !.collection_class = collection_class]
\* sa.orm.dynamic_loader(target)
dynamic_loader(target) ==
    [relationship(target, TRUE, "", FALSE) EXCEPT !.dyn = TRUE]
\* association_proxy(relationship, attribute): remote column of sa_type
association_proxy(target, sa_type, collection_class) ==
    [object EXCEPT !.py = "AssociationProxy", !.target = target,
                   !.sa_type = sa_type,
                   !.collection_class = collection_class]
\* property(fget, fset)
property(fget, fset, ret, defaults) ==
    [object EXCEPT !.py = "property", !.fget = fget, !.fset = fset,
                   !.ret = ret, !.defaults = defaults]
\* hybrid_property(fget, fset)
hybrid_property(fset, ret, defaults) ==
    [object EXCEPT !.py = "hybrid_property", !.fget = TRUE, !.fset = fset,
                   !.ret = ret, !.defaults = defaults]
\* hybrid_method(func)
hybrid_method(ret) ==
    [object EXCEPT !.py = "hybrid_method", !.fget = TRUE, !.ret = ret]

\* One line of a class body
Attr(name, value) == [name |-> name, value |-> value]

---------------------------------------------------------------------------
(* The mapped classes that are inspected: User, Number, JTI_Employee and   *)
(* JTI_Engineer of tests/models.py, and three more in the manner of the    *)
(* classes A and B of test_all_sqlalchemy_model_attribute_names():         *)
(*                                                                         *)
(*   class Shape(Base):                                                    *)
(*       id = Column(Integer, Sequence('shape_id'), primary_key=True)      *)
(*       type = Column(String)                                             *)
(*       kind = synonym('type')                                            *)
(*       @property                                                         *)
(*       def width(self) -> int: ...                                       *)
(*       @property                                                         *)
(*       def area(self) -> int: ...                                        *)
(*       @hybrid_property                                                  *)
(*       def perimeter(self) -> int: ...                                   *)
(*   class Square(Shape):                                                  *)
(*       side = Column(Integer)                                            *)
(*   class Secret(Base):                                                   *)
(*       id = Column(Integer, primary_key=True)                            *)
(*       password = property(None, set_password)   # write-only           *)
(*                                                                         *)
(* User.article_authors and a few more columns of User are left out.       *)

str == Type("str")
int == Type("int")

\* The class body: names and values in the order they are declared
ClassBody(M) ==
    CASE M = "User" ->
           << Attr("__tablename__", object),
              Attr("annotated_int", Column("String", FALSE, None)),
              Attr("int", Column("Integer", TRUE, None)),
              Attr("optional", Column("String", TRUE, None)),
              Attr("required", Column("String", FALSE, None)),
              Attr("default",
                   Column("String", FALSE, ColumnDefault(PyStr("value")))),
              Attr("property_without_type", property(TRUE, FALSE, <<>>, <<>>)),
              Attr("property_typed", property(TRUE, FALSE, str, <<>>)),
              Attr("property_nullable",
                   property(TRUE, FALSE, Optional(str), <<>>)),
              Attr("property_writable",
                   property(TRUE, TRUE, str, <<PyStr("default")>>)),
              Attr("hybrid_property_typed", hybrid_property(FALSE, str, <<>>)),
              Attr("hybrid_property_writable",
                   hybrid_property(TRUE, str, <<PyStr("default")>>)),
              Attr("hybrid_method_attr", hybrid_method(<<>>)),
              Attr("expression", column_property("Integer")),
              Attr("point", composite("Point")),
              Attr("synonym", synonym(composite("Point"))),
              Attr("articles_list",
                   relationship("Article", TRUE, "", FALSE)),
              Attr("articles_set",
                   relationship("Article", TRUE, "set", TRUE)),
              Attr("articles_dict_attr",
                   relationship("Article", TRUE,
                                "attribute_mapped_collection", FALSE)),
              Attr("article_titles",
                   association_proxy("Article", "String", "list")),
              Attr("articles_q", dynamic_loader("Article")) >>
      [] M = "Number" ->
           << Attr("__tablename__", object),
              Attr("id", Column("Integer", FALSE, None)),
              Attr("n", Column("Integer", TRUE, None)),
              Attr("nd1", Column("Integer", TRUE, ColumnDefault(PyInt(100)))),
              Attr("nd2", Column("Integer", TRUE, ColumnDefault(PyFunction))),
              Attr("nd3", Column("Integer", TRUE, ColumnDefault(PySelect))),
              Attr("d1", Column("Integer", FALSE, ColumnDefault(PyInt(100)))),
              Attr("d2", Column("Integer", FALSE, ColumnDefault(PyFunction))),
              Attr("d3", Column("Integer", FALSE, ColumnDefault(PySelect))) >>
      [] M = "JTI_Employee" ->
           << Attr("__tablename__", object),
              Attr("id", Column("Integer", FALSE, None)),
              Attr("name", Column("String", TRUE, None)),
              Attr("type", Column("String", TRUE, None)),
              Attr("company_id", Column("Integer", TRUE, None)),
              Attr("company",
                   relationship("JTI_Company", FALSE, "", FALSE)) >>
      [] M = "JTI_Engineer" ->
           << Attr("__tablename__", object),
              Attr("id", Column("Integer", FALSE, None)),
              Attr("engineer_name", Column("String", TRUE, None)) >>
      [] M = "Shape" ->
           << Attr("__tablename__", object),
              Attr("id", Column("Integer", FALSE, Sequence_("shape_id"))),
              Attr("type", Column("String", TRUE, None)),
              Attr("kind", synonym(Column("String", TRUE, None))),
              Attr("width", property(TRUE, FALSE, int, <<>>)),
              Attr("area", property(TRUE, FALSE, int, <<>>)),
              Attr("perimeter", hybrid_property(FALSE, int, <<>>)) >>
      [] M = "Square" ->
           << Attr("side", Column("Integer", TRUE, None)) >>
      [] M = "Secret" ->
           << Attr("__tablename__", object),
              Attr("id", Column("Integer", FALSE, None)),
              Attr("password", property(FALSE, TRUE, <<>>, <<>>)) >>

\* The mapped class a class inherits from ("": it inherits from Base)
Parent(M) ==
    CASE M = "JTI_Engineer" -> "JTI_Employee"
      [] M = "Square" -> "Shape"
      [] OTHER -> ""

\* Every attribute name of the classes above, in the order of sorted()
SortedNames ==
    << "__tablename__", "annotated_int", "area", "article_titles",
       "articles_dict_attr", "articles_list", "articles_q",
       "articles_set", "company", "company_id", "d1", "d2", "d3",
       "default", "engineer_name", "expression", "hybrid_method_attr",
       "hybrid_property_typed", "hybrid_property_writable", "id", "int",
       "kind", "n", "name", "nd1", "nd2", "nd3", "optional", "password",
       "perimeter", "point", "property_nullable", "property_typed",
       "property_without_type", "property_writable", "required", "side",
       "synonym", "type", "width" >>

---------------------------------------------------------------------------
(* What SqlAlchemy and Python make of a class: Model.__dict__, the         *)
(* attributes found along Model.__mro__, dir(Model), getattr(Model, name)  *)
(* and mapper.all_orm_descriptors.                                         *)

Names(attrs) == [i \in DOMAIN attrs |-> attrs[i].name]
NameSet(attrs) == {attrs[i].name : i \in DOMAIN attrs}
Range(seq) == {seq[i] : i \in DOMAIN seq}
\* The value under a name that is there
Find(attrs, name) ==
    attrs[CHOOSE i \in DOMAIN attrs : attrs[i].name = name].value

\* The class body with every object told where it lives
Declared(M) ==
    Only({ [i \in DOMAIN body |->
              Attr(body[i].name,
                   [body[i].value EXCEPT !.class_ = M,
                                         !.key = body[i].name])] :
           body \in {ClassBody(M)} })

\* isinstance(attr, QueryableAttribute): a mapped attribute
IsQueryableAttribute(attr) == attr.py \in {"InstrumentedAttribute", "Proxy"}
\* isinstance(attr, InspectionAttr) and attr.is_attribute
IsInspectionAttr(attr) ==
    \/ IsQueryableAttribute(attr)
    \/ attr.py \in {"hybrid_property", "hybrid_method", "AssociationProxy",
                    "AssociationProxyInstance"}
\* A Column of the class body: the mapper maps it from the table
IsTableColumn(attr) ==
    attr.py = "InstrumentedAttribute" /\ attr.prop = "ColumnProperty"
        /\ attr.expr = "Column"
\* isinstance(attr, property); hybrid_property is not a property
IsProperty(attr) == attr.py = "property"

\* mapper._props of a class with these declarations: the properties given
\* to the mapper, then those of the mapper it inherits from, then the
\* columns of the table
ConfiguredProps(declared, inherited) ==
    Only({ explicit
           \o SelectSeq(inherited, LAMBDA k : k \notin Range(explicit))
           \o SelectSeq(Names(declared),
                LAMBDA k : /\ IsTableColumn(Find(declared, k))
                           /\ k \notin Range(inherited)) :
           explicit \in {Names(SelectSeq(declared,
                            LAMBDA a : /\ IsQueryableAttribute(a.value)
                                       /\ ~IsTableColumn(a.value)))} })

\* mapper._props, the names
RECURSIVE props(_)
props(M) ==
    Only({ ConfiguredProps(declared, inherited) :
           declared \in {Declared(M)},
           inherited \in {IF Parent(M) = "" THEN <<>>
                          ELSE props(Parent(M))} })

\* Model.__dict__ (what vars(Model) iterates): the class body, then the
\* attributes the mapper installs for the inherited properties
RECURSIVE ModelDict(_)
ModelDict(M) ==
    IF Parent(M) = "" THEN Declared(M)
    ELSE Only({ declared \o
                Only({ [i \in DOMAIN installed |->
                          Attr(installed[i],
                               [Find(base, installed[i])
                                   EXCEPT !.class_ = M])] :
                       installed \in
                          {SelectSeq(inherited,
                              LAMBDA k : k \notin NameSet(declared))} }) :
                declared \in {Declared(M)},
                inherited \in {props(Parent(M))},
                base \in {ModelDict(Parent(M))} })

\* Every attribute found along Model.__mro__, the class's __dict__ first
RECURSIVE ModelAttributes(_)
ModelAttributes(M) ==
    IF Parent(M) = "" THEN ModelDict(M)
    ELSE Only({ own \o SelectSeq(base,
                          LAMBDA a : a.name \notin NameSet(own)) :
                own \in {ModelDict(M)},
                base \in {ModelAttributes(Parent(M))} })

\* The mapped class as the functions below see it
Class(M) == [name |-> M, dict |-> ModelDict(M), attrs |-> ModelAttributes(M)]

\* dir(Model): the names of the class and of its bases, sorted
dir(Model_) == SelectSeq(SortedNames, LAMBDA k : k \in NameSet(Model_.attrs))

\* getattr(Model, name): the descriptors of the class are looked up along
\* the __mro__; an AssociationProxy gives an AssociationProxyInstance
class_getattr(Model_, name) ==
    Only({ IF attr.py = "AssociationProxy"
           THEN [attr EXCEPT !.py = "AssociationProxyInstance",
                             !.class_ = Model_.name]
           ELSE attr :
           attr \in {Find(Model_.attrs, name)} })

\* mapper.all_orm_descriptors: for every class of the __mro__, the
\* InspectionAttr objects of its __dict__ under the names not seen yet.
\* (A __dict__ is walked as a set; the classes here inherit one extension
\* attribute at most, so the order of what is below does not depend on it.)
all_orm_descriptors(Model_) ==
    SelectSeq(Model_.attrs, LAMBDA a : IsInspectionAttr(a.value))

---------------------------------------------------------------------------
(* info/sa_extract_info.py: what the body of                               *)
(* all_sqlalchemy_model_attributes() computes.                             *)

\* The names of vars(Model) that are ORM descriptors or properties: the
\* keys the dict is initialized with, in this order
InitializedNames(Model_, descriptors) ==
    SelectSeq(Names(Model_.dict),
        LAMBDA k : \/ k \in NameSet(descriptors)
                   \/ IsProperty(class_getattr(Model_, k)))
\* ... after update(mapper.all_orm_descriptors): new keys go to the end
CollectedNames(initialized, descriptors) ==
    initialized
    \o SelectSeq(Names(descriptors), LAMBDA k : k \notin Range(initialized))
\* ... after the loop over dir(Model) that adds the properties
AllNames(Model_, collected) ==
    collected
    \o SelectSeq(dir(Model_),
          LAMBDA k : /\ k \notin Range(collected)
                     /\ IsProperty(class_getattr(Model_, k)))

\* The result: an AssociationProxy is replaced with getattr(Model, name)
AsMapping(Model_, names, descriptors) ==
    [i \in DOMAIN names |->
        Attr(names[i],
             IF names[i] \in NameSet(descriptors)
             THEN IF Find(descriptors, names[i]).py = "AssociationProxy"
                  THEN class_getattr(Model_, names[i])
                  ELSE Find(descriptors, names[i])
             ELSE class_getattr(Model_, names[i]))]

\* all_model_attributes: the {name => attribute} dict that
\* all_sqlalchemy_model_attributes() returns, in its order
all_model_attributes(M) ==
    Only({ Only({ Only({ AsMapping(Model_, names, descriptors) :
                         names \in {AllNames(Model_,
                                      CollectedNames(initialized,
                                                     descriptors))} }) :
                  initialized \in {InitializedNames(Model_, descriptors)} }) :
           Model_ \in {Class(M)},
           descriptors \in {all_orm_descriptors(Class(M))} })

---------------------------------------------------------------------------
(* sa2schema/attribute_info.py: the AttributeInfo classes.                 *)

\* cls.__subclasses__(), in the order the classes are defined
subclasses(cls) ==
    CASE cls = "AttributeInfo" ->
            <<"ColumnInfo", "PropertyInfo", "HybridMethodInfo",
              "ColumnExpressionInfo", "CompositeInfo", "RelationshipInfo",
              "AssociationProxyInfo">>
      [] cls = "PropertyInfo" -> <<"HybridPropertyInfo">>
      [] cls = "RelationshipInfo" -> <<"DynamicLoaderInfo">>
      [] OTHER -> <<>>

\* get_deep_subclasses(cls): for every subclass, its deep subclasses and
\* then the subclass
RECURSIVE DeepEach(_, _)
RECURSIVE get_deep_subclasses(_)
DeepEach(subs, i) ==
    IF i > Len(subs) THEN <<>>
    ELSE get_deep_subclasses(subs[i]) \o <<subs[i]>> \o DeepEach(subs, i + 1)
get_deep_subclasses(cls) == DeepEach(subclasses(cls), 1)

\* AttributeInfo.all_implementations()
all_implementations == get_deep_subclasses("AttributeInfo")

\* InfoClass.extracts()
extracts(InfoClass) ==
    CASE InfoClass = "ColumnInfo" -> COLUMN
      [] InfoClass = "PropertyInfo" ->
            PROPERTY_R \cup PROPERTY_W \cup PROPERTY_RW
      [] InfoClass = "HybridPropertyInfo" ->
            HYBRID_PROPERTY_R \cup HYBRID_PROPERTY_W \cup HYBRID_PROPERTY_RW
      [] InfoClass = "HybridMethodInfo" -> HYBRID_METHOD
      [] InfoClass = "ColumnExpressionInfo" -> EXPRESSION
      [] InfoClass = "CompositeInfo" -> COMPOSITE
      [] InfoClass = "RelationshipInfo" -> RELATIONSHIP
      [] InfoClass = "DynamicLoaderInfo" -> DYNAMIC_LOADER
      [] InfoClass = "AssociationProxyInfo" -> ASSOCIATION_PROXY

\* PropertyInfo.matches(), were a hybrid_property a property
PropertyInfo_matches_Hybrid(attr, types) ==
    /\ attr.py \in {"property", "hybrid_property"}
    /\ \/ (types \cap PROPERTY_R # {} /\ attr.fget)
       \/ (types \cap PROPERTY_W # {} /\ attr.fset)
\* PropertyInfo.matches(attr, types)
PropertyInfo_matches(attr, types) ==
    /\ IsProperty(attr)
    /\ \/ (types \cap PROPERTY_R # {} /\ attr.fget)
       \/ (types \cap PROPERTY_W # {} /\ attr.fset)
\* HybridPropertyInfo.matches(attr, types)
HybridPropertyInfo_matches(attr, types) ==
    /\ attr.py = "hybrid_property"
    /\ \/ (types \cap HYBRID_PROPERTY_R # {} /\ attr.fget)
       \/ (types \cap HYBRID_PROPERTY_W # {} /\ attr.fset)

\* InfoClass.matches(attr, types)
matches(InfoClass, attr, types) ==
    CASE InfoClass = "ColumnInfo" ->
            /\ attr.py = "InstrumentedAttribute"
            /\ attr.prop = "ColumnProperty"
            /\ attr.expr = "Column"
      [] InfoClass = "PropertyInfo" -> PropertyInfo_matches(attr, types)
      [] InfoClass = "HybridPropertyInfo" ->
            HybridPropertyInfo_matches(attr, types)
      [] InfoClass = "HybridMethodInfo" -> attr.py = "hybrid_method"
      [] InfoClass = "ColumnExpressionInfo" ->
            attr.py = "InstrumentedAttribute" /\ attr.expr = "Label"
      [] InfoClass = "CompositeInfo" ->
            IsQueryableAttribute(attr) /\ attr.prop = "CompositeProperty"
      [] InfoClass = "RelationshipInfo" ->
            /\ attr.py = "InstrumentedAttribute"
            /\ attr.prop = "RelationshipProperty"
            /\ ~attr.dyn
      [] InfoClass = "DynamicLoaderInfo" ->
            /\ attr.py = "InstrumentedAttribute"
            /\ attr.prop = "RelationshipProperty"
            /\ attr.dyn
      [] InfoClass = "AssociationProxyInfo" ->
            attr.py = "AssociationProxyInstance"

\* An AttributeInfo object: the fields of the dataclass (a class without
\* target_model, uselist or collection_class has them empty here)
Info(cls, attribute_type, attr, nullable, readable, writable, value_type, default, default_factory) ==
    [cls |-> cls, attribute_type |-> attribute_type,
     attribute |-> <<attr.class_, attr.key>>, nullable |-> nullable,
     readable |-> readable, writable |-> writable,
     value_type |-> value_type, default |-> default,
     default_factory |-> default_factory, target_model |-> "",
     uselist |-> FALSE, collection_class |-> ""]
NoInfo == Info("", {}, object, FALSE, FALSE, FALSE, <<>>, None, "")

\* What extract() gives: an object, or an exception
Extracted(info) == [raised |-> "", info |-> info]
ExtractRaised(exc) == [raised |-> exc, info |-> NoInfo]

\* Frames the interpreter allows under a call before it raises
\* RecursionError (sys.getrecursionlimit() is 1000 by default)
RecursionLimit == 6

\* lenient_issubclass(collection_class, base): a class that is base or
\* derives from it (MappedCollection is a dict, OrderingList a list); a
\* function is not a class
lenient_issubclass(collection_class, base) ==
    \/ collection_class = base
    \/ collection_class = "MappedCollection" /\ base = "dict"
    \/ collection_class = "OrderingList" /\ base = "list"
\* type(collection_class()), "" when the call raises: the functions that
\* attribute_mapped_collection(), mapped_collection() and ordering_list()
\* return make a MappedCollection or an OrderingList; ListLike is a
\* collection class of its own (neither list, set nor dict) that takes no
\* arguments, make_listlike a function that returns one; KeyedList takes
\* an argument, make_nothing raises
collection_class_type(collection_class) ==
    CASE collection_class \in {"attribute_mapped_collection",
                               "mapped_collection"} -> "MappedCollection"
      [] collection_class \in {"ordering_list", "OrderingList"} ->
            "OrderingList"
      [] collection_class \in {"ListLike", "make_listlike"} -> "ListLike"
      [] collection_class \in {"list", "set", "dict"} -> collection_class
      [] OTHER -> ""

\* What a call of wrap_type_into_collection_class() gives
Wrapped(default_factory, type, calls) ==
    [raised |-> "", ret |-> <<default_factory, type>>, calls |-> calls]

\* One call of wrap_type_into_collection_class() with frames left for it:
\* what it returns (<<default_factory, type>>) or raises, and calls, the
\* collection_class() calls made under it
RECURSIVE wrap_type_call(_, _, _)
wrap_type_call(value_type, collection_class, frames) ==
    IF frames = 0
    THEN [raised |-> "RecursionError", ret |-> <<>>, calls |-> <<>>]
    ELSE CASE lenient_issubclass(collection_class, "list") ->
                Wrapped("list", List(value_type), <<>>)
           [] lenient_issubclass(collection_class, "set") ->
                Wrapped("set", Set(value_type), <<>>)
           [] lenient_issubclass(collection_class, "dict") ->
                Wrapped("dict", Dict(AnyType, value_type), <<>>)
           [] OTHER ->
                IF collection_class_type(collection_class) = ""
                THEN Wrapped("", Union(List(value_type),
                                       Dict(AnyType, value_type)),
                             <<collection_class>>)
                ELSE Only({ IF r.raised # ""
                            THEN Wrapped("", Union(List(value_type),
                                             Dict(AnyType, value_type)),
                                         <<collection_class>> \o r.calls)
                            ELSE [r EXCEPT !.calls =
                                        <<collection_class>> \o @] :
                            r \in {wrap_type_call(value_type,
                                      collection_class_type(collection_class),
                                      frames - 1)} })

\* wrap_type_into_collection_class(value_type, collection_class):
\* <<default_factory, type>>
wrap_type_into_collection_class(value_type, collection_class) ==
    wrap_type_call(value_type, collection_class, RecursionLimit).ret

\* get_function_return_type(function) of a function that is there
get_function_return_type(ret) == IF ret = <<>> THEN AnyType ELSE ret

\* The default ColumnInfo.extract() arrives at
ColumnInfo_default(attr) ==
    Only({ IF IsCallableOrSql(d) THEN NOT_PROVIDED
           ELSE IF IsNone(d) /\ ~attr.nullable THEN NOT_PROVIDED
           ELSE d :
           d \in {IF attr.default.t = "ColumnDefault"
                  THEN attr.default.items[1] ELSE attr.default} })

\* ColumnInfo.extract(attr)
ColumnInfo_extract(attr) ==
    Extracted(Info("ColumnInfo", COLUMN, attr, attr.nullable, TRUE, TRUE,
                   get_type_from_sqlalchemy_type(attr.sa_type),
                   ColumnInfo_default(attr), ""))

\* PropertyInfo.extract(), storing the first access flag that applies
PropertyInfo_extract_OneFlag(cls, attr) ==
    IF ~attr.fget THEN ExtractRaised("TypeError")
    ELSE Extracted(
            Info(cls, IF attr.fget THEN PROPERTY_R ELSE PROPERTY_W, attr,
                 is_Optional_type(get_function_return_type(attr.ret)),
                 attr.fget, attr.fset,
                 unwrap_Optional_type(get_function_return_type(attr.ret)),
                 IF attr.fset /\ Len(attr.defaults) >= 1
                 THEN attr.defaults[1] ELSE NOT_PROVIDED,
                 ""))
\* PropertyInfo.extract(attr); get_type_hints() of a getter that is None
\* raises TypeError
PropertyInfo_extract(cls, attr) ==
    IF ~attr.fget THEN ExtractRaised("TypeError")
    ELSE Extracted(
            Info(cls,
                 IF attr.fget /\ attr.fset THEN PROPERTY_RW
                 ELSE IF attr.fget THEN PROPERTY_R
                 ELSE PROPERTY_W,
                 attr,
                 is_Optional_type(get_function_return_type(attr.ret)),
                 attr.fget, attr.fset,
                 unwrap_Optional_type(get_function_return_type(attr.ret)),
                 IF attr.fset /\ Len(attr.defaults) >= 1
                 THEN attr.defaults[1] ELSE NOT_PROVIDED,
                 ""))

\* The translation of attribute_type in HybridPropertyInfo.extract()
HybridTranslation(attribute_type) ==
    CASE attribute_type = PROPERTY_R -> HYBRID_PROPERTY_R
      [] attribute_type = PROPERTY_W -> HYBRID_PROPERTY_W
      [] attribute_type = PROPERTY_RW -> HYBRID_PROPERTY_RW
\* HybridPropertyInfo.extract(attr)
HybridPropertyInfo_extract(attr) ==
    Only({ IF r.raised # "" THEN r
           ELSE Extracted([r.info EXCEPT !.attribute_type =
                                HybridTranslation(r.info.attribute_type)]) :
           r \in {PropertyInfo_extract("HybridPropertyInfo", attr)} })

\* HybridMethodInfo.extract(attr)
HybridMethodInfo_extract(attr) ==
    Extracted(Info("HybridMethodInfo", HYBRID_METHOD, attr,
                   is_Optional_type(get_function_return_type(attr.ret)),
                   TRUE, FALSE, get_function_return_type(attr.ret),
                   NOT_PROVIDED, ""))

\* ColumnExpressionInfo.extract(attr)
ColumnExpressionInfo_extract(attr) ==
    Extracted(Info("ColumnExpressionInfo", EXPRESSION, attr, TRUE, TRUE,
                   FALSE, get_type_from_sqlalchemy_type(attr.sa_type),
                   NOT_PROVIDED, ""))

\* CompositeInfo.extract(attr)
CompositeInfo_extract(attr) ==
    Extracted(Info("CompositeInfo", COMPOSITE, attr, FALSE, TRUE, TRUE,
                   Type(attr.composite_class), NOT_PROVIDED, ""))


\* RelationshipInfo.extract(attr), for the class cls
RelationshipInfo_extract(cls, attr) ==
    Only({ Extracted(
             [Info(cls, RELATIONSHIP, attr, ~attr.uselist, TRUE,
                   ~attr.viewonly,
                   IF attr.uselist
                   THEN wrap_type_into_collection_class(
                            Type(attr.target), cc)[2]
                   ELSE Type(attr.target),
                   IF ~attr.uselist THEN None ELSE NOT_PROVIDED,
                   IF attr.uselist
                   THEN wrap_type_into_collection_class(
                            Type(attr.target), cc)[1]
                   ELSE "")
              EXCEPT !.target_model = attr.target,
                     !.uselist = attr.uselist,
                     !.collection_class = cc]) :
           cc \in {IF attr.collection_class # "" THEN attr.collection_class
                   ELSE IF attr.uselist THEN "list" ELSE ""} })

\* DynamicLoaderInfo.extract(attr)
DynamicLoaderInfo_extract(attr) ==
    Only({ Extracted([r.info EXCEPT !.attribute_type = DYNAMIC_LOADER]) :
           r \in {RelationshipInfo_extract("DynamicLoaderInfo", attr)} })

\* AssociationProxyInfo._wrap_value_type_with_collection_class()
AssociationProxyInfo_wrap(target_model, value_type, collection_class) ==
    IF lenient_issubclass(collection_class, "dict")
    THEN <<"dict", Dict(value_type, Type(target_model))>>
    ELSE wrap_type_into_collection_class(value_type, collection_class)

\* AssociationProxyInfo.extract(attr)
AssociationProxyInfo_extract(attr) ==
    Only({ Extracted(
             [Info("AssociationProxyInfo", ASSOCIATION_PROXY, attr,
                   attr.scalar, TRUE, FALSE,
                   AssociationProxyInfo_wrap(
                       attr.target,
                       get_type_from_sqlalchemy_type(attr.sa_type), cc)[2],
                   NOT_PROVIDED,
                   AssociationProxyInfo_wrap(
                       attr.target,
                       get_type_from_sqlalchemy_type(attr.sa_type), cc)[1])
              EXCEPT !.target_model = attr.target,
                     !.collection_class = cc]) :
           cc \in {IF attr.collection_class # "" THEN attr.collection_class
                   ELSE "dict"} })

\* InfoClass.extract(attr)
extract(InfoClass, attr) ==
    CASE InfoClass = "ColumnInfo" -> ColumnInfo_extract(attr)
      [] InfoClass = "PropertyInfo" -> PropertyInfo_extract("PropertyInfo", attr)
      [] InfoClass = "HybridPropertyInfo" -> HybridPropertyInfo_extract(attr)
      [] InfoClass = "HybridMethodInfo" -> HybridMethodInfo_extract(attr)
      [] InfoClass = "ColumnExpressionInfo" ->
            ColumnExpressionInfo_extract(attr)
      [] InfoClass = "CompositeInfo" -> CompositeInfo_extract(attr)
      [] InfoClass = "RelationshipInfo" ->
            RelationshipInfo_extract("RelationshipInfo", attr)
      [] InfoClass = "DynamicLoaderInfo" -> DynamicLoaderInfo_extract(attr)
      [] InfoClass = "AssociationProxyInfo" ->
            AssociationProxyInfo_extract(attr)

\* AttributeInfo.final_value_type, without the override of RelationshipInfo
final_value_type_Base(info) ==
    IF info.nullable /\ info.value_type # AnyType
    THEN Optional(info.value_type)
    ELSE info.value_type
\* info.final_value_type: RelationshipInfo (and DynamicLoaderInfo below it)
\* overrides the property of AttributeInfo
final_value_type(info) ==
    IF info.cls \in {"RelationshipInfo", "DynamicLoaderInfo"} /\ info.uselist
    THEN info.value_type
    ELSE IF info.nullable /\ info.value_type # AnyType
    THEN Optional(info.value_type)
    ELSE info.value_type

---------------------------------------------------------------------------
(* functools.lru_cache(typed=True): every cached function keeps its        *)
(* entries, key and value, the least recently used first.  st is the state *)
(* a call runs in: the caches, and ran, the bodies that have run in this   *)
(* call.                                                                   *)

\* lru_cache(maxsize=128): the default, no function passes another
lru_maxsize == 128

Entry(key, value) == [key |-> key, value |-> value]
Entries(st, f) == IF f \in DOMAIN st.cache THEN st.cache[f] ELSE <<>>
Cached(st, f, key) ==
    \E i \in DOMAIN Entries(st, f) : Entries(st, f)[i].key = key
CachedValue(st, f, key) ==
    Entries(st, f)[CHOOSE i \in DOMAIN Entries(st, f) :
                        Entries(st, f)[i].key = key].value
\* A hit: the entry becomes the most recently used one
lru_hit(st, f, key) ==
    [st EXCEPT !.cache =
        Put(@, f, SelectSeq(Entries(st, f), LAMBDA e : e.key # key)
                    \o <<Entry(key, CachedValue(st, f, key))>>)]
\* A miss: the body runs ...
lru_miss(st, f, key) == [st EXCEPT !.ran = Append(@, <<f, key>>)]
\* ... and what it returns is stored, unless another thread has stored the
\* key while the body ran; a full cache drops its oldest entry
lru_store(st, f, key, value) ==
    IF Cached(st, f, key) THEN st
    ELSE [st EXCEPT !.cache =
            Put(@, f, IF Len(Entries(st, f)) >= lru_maxsize
                      THEN Append(Tail(Entries(st, f)), Entry(key, value))
                      ELSE Append(Entries(st, f), Entry(key, value)))]

---------------------------------------------------------------------------
(* info/sa_extract_info.py                                                 *)

\* all_sqlalchemy_model_attributes(Model)
all_sqlalchemy_model_attributes(M, st) ==
    IF Cached(st, "all_sqlalchemy_model_attributes", <<M>>)
    THEN Value(CachedValue(st, "all_sqlalchemy_model_attributes", <<M>>),
               lru_hit(st, "all_sqlalchemy_model_attributes", <<M>>))
    ELSE Only({ Value(v, lru_store(
                    lru_miss(st, "all_sqlalchemy_model_attributes", <<M>>),
                    "all_sqlalchemy_model_attributes", <<M>>, v)) :
                v \in {all_model_attributes(M)} })

\* all_sqlalchemy_model_attribute_names(Model)
all_sqlalchemy_model_attribute_names(M, st) ==
    IF Cached(st, "all_sqlalchemy_model_attribute_names", <<M>>)
    THEN Value(CachedValue(st, "all_sqlalchemy_model_attribute_names", <<M>>),
               lru_hit(st, "all_sqlalchemy_model_attribute_names", <<M>>))
    ELSE Only({ Value(Names(r.value), lru_store(
                    r.st, "all_sqlalchemy_model_attribute_names", <<M>>,
                    Names(r.value))) :
                r \in {all_sqlalchemy_model_attributes(M,
                        lru_miss(st, "all_sqlalchemy_model_attribute_names",
                                 <<M>>))} })

\* The info classes that extract some of the types
info_classes(impls, types) ==
    SelectSeq(impls, LAMBDA InfoClass : extracts(InfoClass) \cap types # {})

\* One attribute against the info classes j.. : every class that matches
\* extracts, and the last one stays
RECURSIVE ExtractMatching(_, _, _, _, _)
ExtractMatching(classes, j, attr, types, acc) ==
    IF j > Len(classes) THEN acc
    ELSE IF ~matches(classes[j], attr, types)
    THEN ExtractMatching(classes, j + 1, attr, types, acc)
    ELSE Only({ IF r.raised # "" THEN r
                ELSE ExtractMatching(classes, j + 1, attr, types, r) :
                r \in {extract(classes[j], attr)} })

\* The dict comprehension of _sa_model_info(), from attribute i on
RECURSIVE Extraction(_, _, _, _, _)
Extraction(classes, attributes, i, types, acc) ==
    IF i > Len(attributes) THEN [raised |-> "", value |-> acc]
    ELSE Only({ IF r.raised # "" THEN [raised |-> r.raised, value |-> <<>>]
                ELSE Extraction(classes, attributes, i + 1, types,
                        IF r.info.cls = "" THEN acc
                        ELSE Append(acc, Attr(attributes[i].name, r.info))) :
                r \in {ExtractMatching(classes, 1, attributes[i].value, types,
                                       Extracted(NoInfo))} })

\* _sa_model_info(Model, types)
sa_model_info_(M, types, st) ==
    IF Cached(st, "_sa_model_info", <<M, types>>)
    THEN Value(CachedValue(st, "_sa_model_info", <<M, types>>),
               lru_hit(st, "_sa_model_info", <<M, types>>))
    ELSE Only({ Only({ IF r.raised # "" THEN Raised(r.raised, a.st)
                       ELSE Value(r.value,
                                  lru_store(a.st, "_sa_model_info",
                                            <<M, types>>, r.value)) :
                       r \in {Extraction(
                                info_classes(all_implementations, types),
                                a.value, 1, types, <<>>)} }) :
                a \in {all_sqlalchemy_model_attributes(M,
                        lru_miss(st, "_sa_model_info", <<M, types>>))} })

\* filter.prepare_filter_function(exclude, Model) applied to a name, for an
\* exclude that is None ({} here) or an iterable of names
prepare_filter_function(exclude, M, name) == name \in exclude

\* sa_model_info(), filtering the dict of _sa_model_info() in place: the
\* cached dict loses what a caller excludes
sa_model_info_FilterInPlace(M, types, exclude, st) ==
    Only({ IF r.raised # "" THEN r
           ELSE Only({ Value(v, [r.st EXCEPT !.cache =
                        Put(@, "_sa_model_info",
                            [i \in DOMAIN r.st.cache["_sa_model_info"] |->
                                IF r.st.cache["_sa_model_info"][i].key
                                        = <<M, types>>
                                THEN Entry(<<M, types>>, v)
                                ELSE r.st.cache["_sa_model_info"][i]])]) :
                       v \in {SelectSeq(r.value, LAMBDA a :
                                ~prepare_filter_function(exclude, M, a.name))} }) :
           r \in {sa_model_info_(M, types, st)} })

\* sa_model_info(Model, types=, exclude=)
sa_model_info(M, types, exclude, st) ==
    Only({ IF r.raised # "" THEN r
           ELSE Value(SelectSeq(r.value, LAMBDA a :
                        ~prepare_filter_function(exclude, M, a.name)),
                      r.st) :
           r \in {sa_model_info_(M, types, st)} })

\* The loop of sa_attribute_info() over the implementations, from j on
RECURSIVE FirstMatching(_, _, _)
FirstMatching(impls, j, attr) ==
    IF j > Len(impls) THEN ExtractRaised("ValueError")
    ELSE IF matches(impls[j], attr, extracts(impls[j]))
    THEN extract(impls[j], attr)
    ELSE FirstMatching(impls, j + 1, attr)

\* sa_attribute_info(Model, attribute_name): Model.__dict__[name] raises
\* KeyError for a name that is not in the __dict__; `raise AttributeType(
\* 'Attribute ...')` looks a str up in the enum, which raises ValueError
\* (TypeError before Python 3.11)
sa_attribute_info(M, attribute_name, st) ==
    IF Cached(st, "sa_attribute_info", <<M, attribute_name>>)
    THEN Value(CachedValue(st, "sa_attribute_info", <<M, attribute_name>>),
               lru_hit(st, "sa_attribute_info", <<M, attribute_name>>))
    ELSE IF attribute_name \notin NameSet(ModelDict(M))
    THEN Raised("KeyError",
                lru_miss(st, "sa_attribute_info", <<M, attribute_name>>))
    ELSE Only({ IF r.raised # ""
                THEN Raised(r.raised,
                        lru_miss(st, "sa_attribute_info",
                                 <<M, attribute_name>>))
                ELSE Value(r.info,
                        lru_store(lru_miss(st, "sa_attribute_info",
                                           <<M, attribute_name>>),
                                  "sa_attribute_info",
                                  <<M, attribute_name>>, r.info)) :
                r \in {FirstMatching(all_implementations, 1,
                        IF Find(ModelDict(M), attribute_name).py
                                = "AssociationProxy"
                        THEN class_getattr(Class(M), attribute_name)
                        ELSE Find(ModelDict(M), attribute_name))} })

---------------------------------------------------------------------------
(* A process that inspects mapped classes.  Every call runs on the caches  *)
(* the calls before it left; call says what was called (and whether the    *)
(* cached function under it had a stored result for the key already, and  *)
(* whether the same call was made before), outcome what it raised or       *)
(* returned and which bodies ran, first what every call gave the first     *)
(* time and which call of the process that was.                            *)

\* Calls one process makes
MaxCalls == 3

InfoModels == {"User", "Number", "Square", "Secret"}

\* The arguments of sa_model_info(): <<Model, types, exclude>>
ModelInfoCalls ==
    {<<M, ALL, {}>> : M \in InfoModels}
    \cup {<<"User", types, {}>> :
            types \in {PROPERTY_R, PROPERTY_W, PROPERTY_RW}}
    \cup {<<"Secret", PROPERTY_R, {}>>,
          <<"User", ALL, {"int", "property_typed"}>>}

\* The arguments of sa_attribute_info(): <<Model, attribute_name>>
AttributeInfoCalls ==
    {<<"User", "property_writable">>, <<"Square", "side">>,
     <<"Square", "width">>, <<"Shape", "kind">>}

\* The arguments of all_sqlalchemy_model_attribute_names()
NamesCalls == {"User", "Square", "JTI_Engineer"}

\* The (function, key) pairs with a stored result
Stored(c) == UNION {{<<f, c[f][i].key>> : i \in DOMAIN c[f]} : f \in DOMAIN c}

\* The bookkeeping of a call of f with key that gave r
Called(f, key, args, r) ==
    /\ cache' = r.st.cache
    /\ computed' = computed \cup Stored(r.st.cache)
    /\ call' = [f |-> f, key |-> key, args |-> args,
                known |-> <<f, key>> \in computed,
                repeats |-> <<f, args>> \in DOMAIN first]
    /\ outcome' = [raised |-> r.raised, value |-> r.value, ran |-> r.st.ran]
    /\ first' = IF <<f, args>> \in DOMAIN first THEN first
                ELSE Put(first, <<f, args>>,
                         [raised |-> r.raised, value |-> r.value,
                          n |-> ncalls + 1])
    /\ ncalls' = ncalls + 1
    /\ pc' = "inspected"
    /\ UNCHANGED dict_
    /\ UNCHANGED moreVars

\* sa_model_info(Model, types=types, exclude=exclude)
ModelInfo(M, types, exclude) ==
    /\ ncalls < MaxCalls
    /\ \E r \in {sa_model_info(M, types, exclude,
                               [cache |-> cache, ran |-> <<>>])} :
          Called("_sa_model_info", <<M, types>>, <<M, types, exclude>>, r)

\* sa_attribute_info(Model, attribute_name)
AttributeInfo(M, attribute_name) ==
    /\ ncalls < MaxCalls
    /\ \E r \in {sa_attribute_info(M, attribute_name,
                                   [cache |-> cache, ran |-> <<>>])} :
          Called("sa_attribute_info", <<M, attribute_name>>,
                 <<M, attribute_name>>, r)

\* all_sqlalchemy_model_attribute_names(Model)
AttributeNames(M) ==
    /\ ncalls < MaxCalls
    /\ \E r \in {all_sqlalchemy_model_attribute_names(M,
                    [cache |-> cache, ran |-> <<>>])} :
          Called("all_sqlalchemy_model_attribute_names", <<M>>, <<M>>, r)

NextInfo ==
    \/ \E c \in ModelInfoCalls : ModelInfo(c[1], c[2], c[3])
    \/ \E c \in AttributeInfoCalls : AttributeInfo(c[1], c[2])
    \/ \E M \in NamesCalls : AttributeNames(M)

SpecInfo == Init /\ [][NextInfo]_vars

---------------------------------------------------------------------------
(* A process that inspects one class under many kind sets: after           *)
(* sa_model_info(Model) it calls sa_model_info(Model, types=t) for         *)
(* t = AttributeType(1), AttributeType(2), ... and, at any point, asks for *)
(* sa_model_info(Model) once more.                                         *)

\* Calls one sweeping process makes
MaxSweep == 130

SweepModels == {"Number", "Square", "JTI_Engineer"}

\* The first call: sa_model_info(Model)
Inspect(M) ==
    /\ ncalls = 0
    /\ \E r \in {sa_model_info(M, ALL, {}, [cache |-> cache, ran |-> <<>>])} :
          Called("_sa_model_info", <<M, ALL>>, <<M, ALL, {}>>, r)

\* The next kind set: sa_model_info(Model, types=AttributeType(ncalls))
Sweep ==
    /\ ncalls >= 1
    /\ ncalls < MaxSweep
    /\ ~call.repeats
    /\ \E r \in {sa_model_info(call.args[1], AttributeType(ncalls), {},
                               [cache |-> cache, ran |-> <<>>])} :
          Called("_sa_model_info", <<call.args[1], AttributeType(ncalls)>>,
                 <<call.args[1], AttributeType(ncalls), {}>>, r)

\* sa_model_info(Model) again, the last call of the process
Again ==
    /\ ncalls >= 1
    /\ ~call.repeats
    /\ \E r \in {sa_model_info(call.args[1], ALL, {},
                               [cache |-> cache, ran |-> <<>>])} :
          Called("_sa_model_info", <<call.args[1], ALL>>,
                 <<call.args[1], ALL, {}>>, r)

NextSweep ==
    \/ \E M \in SweepModels : Inspect(M)
    \/ Sweep
    \/ Again

SpecSweep == Init /\ [][NextSweep]_vars

---------------------------------------------------------------------------
(* Properties of the extraction engine.                                    *)

\* The last call was sa_model_info()
ModelInfoCalled == pc = "inspected" /\ call.f = "_sa_model_info"

\* C12: sa_model_info() called again with the same arguments, whatever
\* extraction calls were made in between, gives what it gave the first
\* time: the same names in the same order with equal descriptors (or the
\* same exception).
C12_SameInfoEveryTime ==
    ModelInfoCalled
    => /\ outcome.raised = first[<<call.f, call.args>>].raised
       /\ outcome.value = first[<<call.f, call.args>>].value

\* A non-empty result is returned for the second time, after another call
\* that was made since the first
C12_Witness ==
    /\ ModelInfoCalled
    /\ call.repeats
    /\ outcome.raised = ""
    /\ Len(outcome.value) > 0
    /\ \E c \in DOMAIN first : first[c].n > first[<<call.f, call.args>>].n


\* A process that has called nothing yet
Cold == [cache |-> NoCache, ran |-> <<>>]
\* The last call was sa_attribute_info()
AttributeInfoCalled == pc = "inspected" /\ call.f = "sa_attribute_info"
\* The last call was all_sqlalchemy_model_attribute_names()
AttributeNamesCalled ==
    pc = "inspected" /\ call.f = "all_sqlalchemy_model_attribute_names"
Reverse(seq) == [i \in DOMAIN seq |-> seq[Len(seq) + 1 - i]]

\* C13: sa_model_info(Model, types=K, exclude=f) returns the all-kinds
\* extraction of Model restricted to the names whose descriptor kind
\* intersects K and that f does not match, whatever was called before.
C13_RestrictionOfAllKinds ==
    ModelInfoCalled
    => \E all \in {sa_model_info(call.args[1], ALL, {}, Cold)} :
          /\ all.raised = ""
          /\ outcome.raised = ""
          /\ outcome.value =
                SelectSeq(all.value,
                    LAMBDA a : /\ a.value.attribute_type \cap call.args[2] # {}
                               /\ a.name \notin call.args[3])

\* C14: for every attribute enumerated for the class and the requested
\* kind set, at most one of the info classes whose extracts() intersects
\* the kind set matches the attribute, and the result is what the registry
\* enumerated in the opposite order gives.
C14_OneStrategyPerAttribute ==
    ModelInfoCalled
    => \E attributes \in {all_model_attributes(call.args[1])} :
          /\ \A i \in DOMAIN attributes :
                Cardinality({InfoClass \in Range(info_classes(
                                all_implementations, call.args[2])) :
                             matches(InfoClass, attributes[i].value,
                                     call.args[2])}) <= 1
          /\ \E r \in {Extraction(
                        info_classes(Reverse(all_implementations),
                                     call.args[2]),
                        attributes, 1, call.args[2], <<>>)} :
                /\ r.raised = outcome.raised
                /\ r.raised = ""
                   => outcome.value =
                        SelectSeq(r.value,
                                  LAMBDA a : a.name \notin call.args[3])

\* Several info classes extract some of the requested kinds, and an
\* attribute of the class got its descriptor from one of them
C14_Witness ==
    /\ ModelInfoCalled
    /\ Len(info_classes(all_implementations, call.args[2])) > 2
    /\ outcome.raised = ""
    /\ \E i \in DOMAIN outcome.value :
          outcome.value[i].value.cls = "HybridPropertyInfo"

\* C15: sa_attribute_info(Model, name) returns the descriptor that
\* sa_model_info(Model, types=ALL) has under the name, for every name of
\* that mapping, inherited names included, and raises for a name that bulk
\* extraction leaves out.
C15_SingleEqualsBulk ==
    AttributeInfoCalled
    => \E all \in {sa_model_info(call.args[1], ALL, {}, Cold)} :
          /\ all.raised = ""
          /\ IF call.args[2] \in NameSet(all.value)
             THEN /\ outcome.raised = ""
                  /\ outcome.value = Find(all.value, call.args[2])
             ELSE outcome.raised # ""

\* A value that is plain data
Concrete(v) == v.t \in {"int", "bool", "str", "list", "dict"}

\* C16: the default of every extracted ColumnInfo is never a callable or an
\* SQL construct; with nullable False it is a concrete value or
\* NOT_PROVIDED, never None; with nullable True and no default declared on
\* the column it is None.
C16_ColumnDefaults ==
    (ModelInfoCalled /\ outcome.raised = "")
    => \A i \in DOMAIN outcome.value :
          \E d \in {outcome.value[i].value} :
             d.cls = "ColumnInfo"
             => /\ Concrete(d.default) \/ d.default \in {None, NOT_PROVIDED}
                /\ ~d.nullable
                   => Concrete(d.default) \/ d.default = NOT_PROVIDED
                /\ ( /\ d.nullable
                     /\ IsNone(Find(all_model_attributes(call.args[1]),
                                    outcome.value[i].name).default) )
                   => d.default = None


\* The descriptors of the last call: those of the mapping sa_model_info()
\* returned, or the one sa_attribute_info() returned
Descriptors ==
    IF pc # "inspected" \/ outcome.raised # "" THEN {}
    ELSE IF call.f = "_sa_model_info"
    THEN {outcome.value[i].value : i \in DOMAIN outcome.value}
    ELSE IF call.f = "sa_attribute_info" THEN {outcome.value}
    ELSE {}
\* A to-many relationship descriptor
ToMany(d) == d.cls \in {"RelationshipInfo", "DynamicLoaderInfo"} /\ d.uselist

\* C17 as claimed: every nullable descriptor that is not a to-many
\* relationship has final_value_type = Optional[value_type].
C17_NullableIsOptional ==
    \A d \in Descriptors :
        (~ToMany(d) /\ d.nullable)
        => final_value_type(d) = Optional(d.value_type)

\* C17: for a descriptor that is not a to-many relationship,
\* final_value_type is Optional[value_type] when nullable is True and
\* value_type is not Any, Any when nullable is True and value_type is Any,
\* and value_type when nullable is False; for a to-many relationship it is
\* the collection-wrapped value_type, not Optional, whatever nullable is
\* set to.
C17_FinalValueType ==
    \A d \in Descriptors :
        IF ToMany(d)
        THEN \A nullable \in BOOLEAN :
                /\ final_value_type([d EXCEPT !.nullable = nullable])
                        = d.value_type
                /\ Head(d.value_type) \in {"List", "Set", "Dict", "Union"}
        ELSE /\ (d.nullable /\ d.value_type # AnyType)
                => final_value_type(d) = Optional(d.value_type)
             /\ (d.nullable /\ d.value_type = AnyType)
                => final_value_type(d) = AnyType
             /\ ~d.nullable => final_value_type(d) = d.value_type

\* A mapping with a nullable typed descriptor, a nullable Any descriptor, a
\* descriptor that is not nullable and a to-many relationship
C17_Witness ==
    /\ \E d \in Descriptors : ~ToMany(d) /\ d.nullable /\ d.value_type # AnyType
    /\ \E d \in Descriptors : ~ToMany(d) /\ d.nullable /\ d.value_type = AnyType
    /\ \E d \in Descriptors : ~ToMany(d) /\ ~d.nullable
    /\ \E d \in Descriptors : ToMany(d)

\* C18 as claimed: the attribute_type of every descriptor is one primitive
\* flag.
C18_SingleFlagStored ==
    \A d \in Descriptors : Cardinality(d.attribute_type) = 1

\* C18: the attribute_type of a descriptor is one primitive flag among
\* those its info class extracts, except that a property (hybrid property)
\* with both a getter and a setter carries the union PROPERTY_RW
\* (HYBRID_PROPERTY_RW); a property with a getter only carries PROPERTY_R
\* (HYBRID_PROPERTY_R).
C18_StoredAttributeType ==
    \A d \in Descriptors :
        /\ d.attribute_type \subseteq extracts(d.cls)
        /\ IF d.cls \in {"PropertyInfo", "HybridPropertyInfo"}
                /\ d.readable /\ d.writable
           THEN d.attribute_type =
                    IF d.cls = "PropertyInfo" THEN PROPERTY_RW
                    ELSE HYBRID_PROPERTY_RW
           ELSE Cardinality(d.attribute_type) = 1
        /\ (d.cls = "PropertyInfo" /\ d.readable /\ ~d.writable)
           => d.attribute_type = PROPERTY_R
        /\ (d.cls = "HybridPropertyInfo" /\ d.readable /\ ~d.writable)
           => d.attribute_type = HYBRID_PROPERTY_R

\* A mapping with a read-write property, a read-write hybrid property, a
\* read-only property and a column
C18_Witness ==
    /\ \E d \in Descriptors : d.attribute_type = PROPERTY_RW
    /\ \E d \in Descriptors : d.attribute_type = HYBRID_PROPERTY_RW
    /\ \E d \in Descriptors : d.attribute_type = PROPERTY_R
    /\ \E d \in Descriptors : d.attribute_type = COLUMN


\* The names declared along the inheritance chain: those an ancestor
\* declares, in its order, before those the class declares itself
RECURSIVE DeclarationOrder(_)
DeclarationOrder(M) ==
    IF Parent(M) = "" THEN Names(ClassBody(M))
    ELSE Only({ inherited
                \o SelectSeq(Names(ClassBody(M)),
                      LAMBDA k : k \notin Range(inherited)) :
                inherited \in {DeclarationOrder(Parent(M))} })

\* C19: all_sqlalchemy_model_attribute_names(Model) lists the names in the
\* order they were declared, the names an ancestor declares (inherited
\* properties among them, in the ancestor's order) before the names the
\* class declares itself.
C19_DeclarationOrder ==
    AttributeNamesCalled
    => outcome.value =
          SelectSeq(DeclarationOrder(call.args[1]),
                    LAMBDA k : k \in Range(outcome.value))

\* C20: a result that was computed once stays in the cache and every later
\* call with the same arguments is served from it: the body does not run
\* again, and no entry is ever dropped.
C20_ComputedOnce ==
    /\ computed \subseteq Stored(cache)
    /\ (pc = "inspected" /\ call.known)
       => <<call.f, call.key>> \notin Range(outcome.ran)

---------------------------------------------------------------------------
(* Threads inside _sa_model_info(Model, types), all with the same          *)
(* arguments.  A thread switch can happen between any two bytecodes, so    *)
(* the call is cut where its steps touch something shared: the lookup of   *)
(* lru_cache(), the call of all_sqlalchemy_model_attributes() (a cached    *)
(* function again: lookup, body and store), every iteration of the dict    *)
(* comprehension, and the store of lru_cache() when the body has returned. *)
(* The frame of a thread holds its locals: attributes, the items the       *)
(* comprehension iterates; i, the next one; acc, the dict being built;     *)
(* got, what its calls have returned so far, and whether the body ran.     *)

\* Threads of one process, and the calls each of them makes
NThreads == 2
MaxThreadCalls == 2

Threads == 1 .. NThreads

\* The arguments the threads call _sa_model_info() with
ThreadKeys ==
    {<<"Number", ALL>>, <<"Square", ALL>>, <<"JTI_Engineer", ALL_COLUMNS>>}

NoFrame ==
    [pc |-> "out", attributes |-> <<>>, i |-> 0, acc |-> <<>>, got |-> <<>>]

InitThreads ==
    /\ dict_ = Fresh
    /\ pc = "threads"
    /\ \E key \in ThreadKeys :
          call = [f |-> "_sa_model_info", key |-> key, args |-> key,
                  known |-> FALSE, repeats |-> FALSE]
    /\ outcome = NoOutcome
    /\ cache = NoCache
    /\ computed = {}
    /\ first = NoCache
    /\ ncalls = 0
    /\ threads = [t \in Threads |-> NoFrame]
    /\ filters = NoFilters
    /\ state_info = NoStateInfo

\* A step of the comprehension, had the dict been put into the cache first
\* and filled there
cache_after_step_Shared(c, key, acc, complete) ==
    Put(c, "_sa_model_info", <<Entry(key, acc)>>)
\* What a step of the comprehension in _sa_model_info() leaves in the
\* cache: the dict it builds is a local of the call, so nothing until the
\* body has returned (complete), when lru_cache() stores the dict
cache_after_step(c, key, acc, complete) ==
    IF complete
    THEN lru_store([cache |-> c, ran |-> <<>>], "_sa_model_info", key,
                   acc).cache
    ELSE c

\* The thread leaves a call with a value
Return(frame, value, ran) ==
    [frame EXCEPT !.pc = "returned",
                  !.got = Append(@, [value |-> value, ran |-> ran])]

\* lru_cache() of _sa_model_info(): the lookup
Enter(t) ==
    /\ threads[t].pc \in {"out", "returned"}
    /\ Len(threads[t].got) < MaxThreadCalls
    /\ \E st \in {[cache |-> cache, ran |-> <<>>]} :
          IF Cached(st, "_sa_model_info", call.key)
          THEN /\ cache' = lru_hit(st, "_sa_model_info", call.key).cache
               /\ threads' = [threads EXCEPT ![t] =
                    Return(@, CachedValue(st, "_sa_model_info", call.key),
                           FALSE)]
          ELSE /\ cache' = cache
               /\ threads' = [threads EXCEPT ![t].pc = "attributes"]
    /\ UNCHANGED <<dict_, pc, call, outcome, computed, first, ncalls, filters,
                   state_info>>

\* all_sqlalchemy_model_attributes(Model): the lookup of its lru_cache()
Attributes(t) ==
    /\ threads[t].pc = "attributes"
    /\ \E st \in {[cache |-> cache, ran |-> <<>>]} :
          IF Cached(st, "all_sqlalchemy_model_attributes", <<call.key[1]>>)
          THEN /\ cache' = lru_hit(st, "all_sqlalchemy_model_attributes",
                                   <<call.key[1]>>).cache
               /\ threads' = [threads EXCEPT
                    ![t].pc = "extract",
                    ![t].attributes =
                        CachedValue(st, "all_sqlalchemy_model_attributes",
                                    <<call.key[1]>>),
                    ![t].i = 1,
                    ![t].acc = <<>>]
          ELSE /\ cache' = cache
               /\ threads' = [threads EXCEPT ![t].pc = "attributes_body"]
    /\ UNCHANGED <<dict_, pc, call, outcome, computed, first, ncalls, filters,
                   state_info>>

\* ... its body, which reads the class only, and the store of lru_cache()
AttributesBody(t) ==
    /\ threads[t].pc = "attributes_body"
    /\ \E v \in {all_model_attributes(call.key[1])} :
          /\ cache' = lru_store([cache |-> cache, ran |-> <<>>],
                                "all_sqlalchemy_model_attributes",
                                <<call.key[1]>>, v).cache
          /\ threads' = [threads EXCEPT ![t].pc = "extract",
                                        ![t].attributes = v,
                                        ![t].i = 1,
                                        ![t].acc = <<>>]
    /\ UNCHANGED <<dict_, pc, call, outcome, computed, first, ncalls, filters,
                   state_info>>

\* One iteration of the comprehension; after the last one the body
\* returns, lru_cache() stores the dict and the thread has its result
ExtractNext(t) ==
    /\ threads[t].pc = "extract"
    /\ threads[t].i <= Len(threads[t].attributes)
    /\ \E r \in {Extraction(info_classes(all_implementations, call.key[2]),
                           SubSeq(threads[t].attributes, threads[t].i,
                                  threads[t].i),
                           1, call.key[2], threads[t].acc)} :
       \E complete \in {threads[t].i = Len(threads[t].attributes)} :
          /\ r.raised = ""
          /\ cache' = cache_after_step(cache, call.key, r.value, complete)
          /\ threads' = [threads EXCEPT ![t] =
                IF complete
                THEN Return([@ EXCEPT !.acc = r.value], r.value, TRUE)
                ELSE [@ EXCEPT !.acc = r.value, !.i = @ + 1]]
    /\ UNCHANGED <<dict_, pc, call, outcome, computed, first, ncalls, filters,
                   state_info>>

NextThreads ==
    \E t \in Threads :
        \/ Enter(t)
        \/ Attributes(t)
        \/ AttributesBody(t)
        \/ ExtractNext(t)

SpecThreads == InitThreads /\ [][NextThreads]_vars

\* What a process with one thread gets from the same call
SingleThreaded(key) ==
    sa_model_info_(key[1], key[2], [cache |-> NoCache, ran |-> <<>>]).value

---------------------------------------------------------------------------
(* sa2schema/filter.py.  A filter, as callers pass it for `exclude` and    *)
(* `make_optional`, is True, False, None, an iterable of names, a plain    *)
(* function of the name, a FieldFilterBase class or an object of one.  An  *)
(* object keeps what its __init__() got (filters, types) and what          *)
(* for_model() has bound it to: bound (self.Model), primary_key_names,     *)
(* model_info, prepared_filters.  What prepare_filter_function() returns   *)
(* is a value of the same shape: one of its three lambdas, or the filter.  *)

FilterValue(k) ==
    [k |-> k, cls |-> "", names |-> {}, types |-> {}, filters |-> <<>>,
     bound |-> "", primary_key_names |-> {}, model_info |-> <<>>,
     prepared_filters |-> <<>>]

TrueFilter == FilterValue("True")
FalseFilter == FilterValue("False")
NoneFilter == FilterValue("None")
\* ['name', ...]
NameList(names) == [FilterValue("Iterable") EXCEPT !.names = names]
\* lambda name: name in (...)
Function(names) == [FilterValue("Callable") EXCEPT !.names = names]
\* A class of filter.py, passed uninstantiated
FilterClass(cls) == [FilterValue("class") EXCEPT !.cls = cls]
\* cls(*filters, types=types)
FilterObject(cls, fs, types) ==
    [FilterValue("object") EXCEPT !.cls = cls, !.filters = fs,
                                  !.types = types]

PRIMARY_KEY == FilterObject("PRIMARY_KEY", <<>>, {})
ALL_BUT_PRIMARY_KEY == FilterObject("ALL_BUT_PRIMARY_KEY", <<>>, {})
READABLE == FilterObject("READABLE", <<>>, {})
WRITABLE == FilterObject("WRITABLE", <<>>, {})
NULLABLE == FilterObject("NULLABLE", <<>>, {})
EITHER(fs) == FilterObject("EITHER", fs, {})
AND(fs) == FilterObject("AND", fs, {})
NOT(f) == FilterObject("NOT", <<f>>, {})
\* BY_TYPE.__init__() keeps NOT(attrs) as self.exclude
BY_TYPE(types, attrs) == FilterObject("BY_TYPE", <<NOT(attrs)>>, types)

\* The class whose for_model() an object of cls runs
for_model_class(cls) ==
    CASE cls \in {"PRIMARY_KEY", "ALL_BUT_PRIMARY_KEY"} -> "PRIMARY_KEY"
      [] cls \in {"READABLE", "WRITABLE", "NULLABLE"} -> "READABLE"
      [] cls = "BY_TYPE" -> "BY_TYPE"
      [] cls \in {"EITHER", "AND", "NOT"} -> "EITHER"

\* sa_model_primary_key_names(Model)
sa_model_primary_key_names(M) ==
    CASE M = "User" -> {"annotated_int"}
      [] OTHER -> {"id"}

\* What a filter function answers: a bool, or an exception
Answer(b) == [raised |-> "", value |-> b]
AnswerRaised(exc) == [raised |-> exc, value |-> FALSE]

RECURSIVE filter_call(_, _)

\* any(filter(name) for filter in prepared_filters), from filter i on
RECURSIVE any_(_, _, _)
any_(prepared_filters, i, name) ==
    IF i > Len(prepared_filters) THEN Answer(FALSE)
    ELSE Only({ IF r.raised # "" \/ r.value THEN r
                ELSE any_(prepared_filters, i + 1, name) :
                r \in {filter_call(prepared_filters[i], name)} })

\* all(filter(name) for filter in prepared_filters), from filter i on
RECURSIVE all_(_, _, _)
all_(prepared_filters, i, name) ==
    IF i > Len(prepared_filters) THEN Answer(TRUE)
    ELSE Only({ IF r.raised # "" \/ ~r.value THEN r
                ELSE all_(prepared_filters, i + 1, name) :
                r \in {filter_call(prepared_filters[i], name)} })

\* AND.__call__(), had AND inherited the one of EITHER
AND_call_Inherited(prepared_filters, name) == any_(prepared_filters, 1, name)
\* AND.__call__(name)
AND_call(prepared_filters, name) == all_(prepared_filters, 1, name)

\* filter(name) of a prepared filter function
filter_call(f, name) ==
    CASE f.k = "lambda: True" -> Answer(TRUE)
      [] f.k = "lambda: False" -> Answer(FALSE)
      [] f.k \in {"lambda: name in column_names", "Callable"} ->
            Answer(name \in f.names)
      [] f.k = "object" /\ f.cls = "PRIMARY_KEY" ->
            Answer(name \in f.primary_key_names)
      [] f.k = "object" /\ f.cls = "ALL_BUT_PRIMARY_KEY" ->
            Answer(name \notin f.primary_key_names)
      [] f.k = "object" /\ f.cls \in {"READABLE", "WRITABLE", "NULLABLE"} ->
            IF name \notin NameSet(f.model_info) THEN AnswerRaised("KeyError")
            ELSE Only({ Answer(CASE f.cls = "READABLE" -> d.readable
                                 [] f.cls = "WRITABLE" -> d.writable
                                 [] f.cls = "NULLABLE" -> d.nullable) :
                        d \in {Find(f.model_info, name)} })
      [] f.k = "object" /\ f.cls = "BY_TYPE" ->
            Answer(name \in NameSet(f.model_info))
      [] f.k = "object" /\ f.cls = "EITHER" ->
            any_(f.prepared_filters, 1, name)
      [] f.k = "object" /\ f.cls = "AND" ->
            AND_call(f.prepared_filters, name)
      [] f.k = "object" /\ f.cls = "NOT" ->
            Only({ IF r.raised # "" THEN r ELSE Answer(~r.value) :
                   r \in {AND_call(f.prepared_filters, name)} })

\* What preparing gives: the filter function, or an exception, and the
\* filter as the call leaves it
Prepared(function, f) == [raised |-> "", function |-> function, filter |-> f]
PrepareRaised(exc, f) ==
    [raised |-> exc, function |-> FilterValue(""), filter |-> f]

\* The dict comprehension of sa_model_info(), from item i on
RECURSIVE NotExcluded(_, _, _, _)
NotExcluded(model_info, i, exclude, acc) ==
    IF i > Len(model_info) THEN [raised |-> "", value |-> acc]
    ELSE Only({ IF r.raised # "" THEN [raised |-> r.raised, value |-> <<>>]
                ELSE NotExcluded(model_info, i + 1, exclude,
                        IF r.value THEN acc
                        ELSE Append(acc, model_info[i])) :
                r \in {filter_call(exclude, model_info[i].name)} })

RECURSIVE prepare_filter(_, _)
RECURSIVE for_model(_, _)

\* The list comprehension of EITHER.for_model(), from filter i on: the
\* filters as they are left, and the prepared functions
RECURSIVE prepare_each(_, _, _, _)
prepare_each(fs, i, M, acc) ==
    IF i > Len(fs) THEN [raised |-> "", filters |-> fs, prepared |-> acc]
    ELSE Only({ IF r.raised # ""
                THEN [raised |-> r.raised,
                      filters |-> [fs EXCEPT ![i] = r.filter],
                      prepared |-> <<>>]
                ELSE prepare_each([fs EXCEPT ![i] = r.filter], i + 1, M,
                                  Append(acc, r.function)) :
                r \in {prepare_filter(fs[i], M)} })

\* sa_model_info(Model, types=types, exclude=exclude) for any exclude; the
\* caches do not change what it returns
sa_model_info_excluding(M, types, exclude) ==
    Only({ IF r.raised # ""
           THEN [raised |-> r.raised, value |-> <<>>, filter |-> exclude]
           ELSE Only({ IF p.raised # ""
                       THEN [raised |-> p.raised, value |-> <<>>,
                             filter |-> p.filter]
                       ELSE Only({ [raised |-> v.raised, value |-> v.value,
                                    filter |-> p.filter] :
                                   v \in {NotExcluded(r.value, 1, p.function,
                                                      <<>>)} }) :
                       p \in {prepare_filter(exclude, M)} }) :
           r \in {sa_model_info_(M, types, [cache |-> NoCache, ran |-> <<>>])} })

\* filter.for_model(Model): the filter as the call leaves it
for_model(f, M) ==
    Only({ CASE base = "PRIMARY_KEY" ->
                  [raised |-> "",
                   filter |-> [b EXCEPT !.primary_key_names =
                                    sa_model_primary_key_names(M)]]
             [] base = "READABLE" ->
                  Only({ [raised |-> r.raised,
                          filter |-> IF r.raised # "" THEN b
                                     ELSE [b EXCEPT !.model_info = r.value]] :
                         r \in {sa_model_info_excluding(M, ALL,
                                                       NameList({}))} })
             [] base = "BY_TYPE" ->
                  Only({ [raised |-> r.raised,
                          filter |-> IF r.raised # ""
                                     THEN [b EXCEPT !.filters = <<r.filter>>]
                                     ELSE [b EXCEPT !.filters = <<r.filter>>,
                                                    !.model_info = r.value]] :
                         r \in {sa_model_info_excluding(M, f.types,
                                                       f.filters[1])} })
             [] base = "EITHER" ->
                  Only({ [raised |-> r.raised,
                          filter |-> IF r.raised # ""
                                     THEN [b EXCEPT !.filters = r.filters]
                                     ELSE [b EXCEPT !.filters = r.filters,
                                                    !.prepared_filters =
                                                        r.prepared]] :
                         r \in {prepare_each(f.filters, 1, M, <<>>)} }) :
           b \in {[f EXCEPT !.bound = M]},
           base \in {for_model_class(f.cls)} })

\* prepare_filter_function(filter, Model) for any filter; BY_TYPE() cannot
\* be called without types
prepare_filter(f, M) ==
    CASE f.k = "True" -> Prepared(FilterValue("lambda: True"), f)
      [] f.k \in {"None", "False"} -> Prepared(FilterValue("lambda: False"), f)
      [] f.k = "object" ->
            Only({ IF r.raised # "" THEN PrepareRaised(r.raised, r.filter)
                   ELSE Prepared(r.filter, r.filter) :
                   r \in {for_model(f, M)} })
      [] f.k = "class" ->
            IF f.cls = "BY_TYPE" THEN PrepareRaised("TypeError", f)
            ELSE Only({ [r EXCEPT !.filter = f] :
                        r \in {prepare_filter(FilterObject(f.cls, <<>>, {}),
                                              M)} })
      [] f.k = "Iterable" ->
            Prepared([FilterValue("lambda: name in column_names")
                      EXCEPT !.names = f.names], f)
      [] f.k = "Callable" -> Prepared(f, f)
      [] OTHER -> PrepareRaised("ValueError", f)

---------------------------------------------------------------------------
(* A process that has one filter and prepares it for one model after       *)
(* another, as sa_models does with its make_optional, keeping the          *)
(* functions it got, and asks them about names.  filters is the filter as  *)
(* it was given and as it is now; outcome the calls of                     *)
(* prepare_filter_function() so far; call the last question.  A function   *)
(* that is the filter object itself answers from what the object is now.   *)

\* Models one process prepares its filter for
MaxPrepared == 2

FilterModels == {"User", "Number", "Secret"}

\* The names a process asks about
AskedNames ==
    {"annotated_int", "int", "id", "n", "property_writable",
     "property_typed", "articles_list", "password", "nothing"}

\* The kind sets given to BY_TYPE
FilterKinds == {COLUMN, PROPERTY_R, PROPERTY_W, ALL_RELATIONSHIPS, ALL}

SimpleFilters ==
    {TrueFilter, FalseFilter, NoneFilter, NameList({"int", "id"}),
     Function({"annotated_int", "n"}), FilterClass("PRIMARY_KEY"),
     PRIMARY_KEY, ALL_BUT_PRIMARY_KEY, READABLE, FilterClass("WRITABLE"),
     NULLABLE}

GivenFilters ==
    SimpleFilters
    \cup {NOT(f) : f \in SimpleFilters}
    \cup {NOT(NOT(f)) : f \in SimpleFilters}
    \cup {EITHER(<<>>), AND(<<>>), FilterClass("AND"), FilterClass("EITHER"),
          EITHER(<<PRIMARY_KEY, BY_TYPE(ALL_RELATIONSHIPS, TrueFilter),
                   NameList({"int"})>>),
          AND(<<READABLE, NOT(WRITABLE)>>),
          NOT(AND(<<BY_TYPE(PROPERTY_R, TrueFilter),
                    BY_TYPE(PROPERTY_W, TrueFilter)>>)),
          NOT(NOT(BY_TYPE(COLUMN, TrueFilter)))}
    \cup {BY_TYPE(types, attrs) :
            types \in FilterKinds,
            attrs \in {TrueFilter, NameList({"int", "id"}),
                       NOT(PRIMARY_KEY)}}

NoQuestion == [i |-> 0, name |-> "", raised |-> "", value |-> FALSE]

InitFilter ==
    /\ dict_ = Fresh
    /\ pc = "filter"
    /\ call = NoQuestion
    /\ outcome = <<>>
    /\ cache = NoCache
    /\ computed = {}
    /\ first = NoCache
    /\ ncalls = 0
    /\ threads = NoThreads
    /\ \E f \in GivenFilters : filters = [given |-> f, now |-> f]
    /\ state_info = NoStateInfo

\* function = prepare_filter_function(filter, Model)
PrepareFilter(M) ==
    /\ Len(outcome) < MaxPrepared
    /\ \E r \in {prepare_filter(filters.now, M)} :
          /\ filters' = [filters EXCEPT !.now = r.filter]
          /\ outcome' = Append(outcome,
                [Model |-> M, raised |-> r.raised, function |-> r.function,
                 is_filter |-> filters.now.k = "object"])
    /\ call' = NoQuestion
    /\ UNCHANGED <<dict_, pc, cache, computed, first, ncalls, threads,
                   state_info>>

\* function(name), for the function the i-th preparation returned
Ask(i, name) ==
    /\ i \in DOMAIN outcome
    /\ outcome[i].raised = ""
    /\ \E r \in {filter_call(IF outcome[i].is_filter THEN filters.now
                            ELSE outcome[i].function, name)} :
          call' = [i |-> i, name |-> name, raised |-> r.raised,
                   value |-> r.value]
    /\ UNCHANGED <<dict_, pc, outcome, cache, computed, first, ncalls,
                   threads, filters, state_info>>

NextFilter ==
    \/ \E M \in FilterModels : PrepareFilter(M)
    \/ \E i \in 1 .. MaxPrepared : \E name \in AskedNames : Ask(i, name)

SpecFilter == InitFilter /\ [][NextFilter]_vars

---------------------------------------------------------------------------
(* Properties of the filters.                                              *)

\* A prepared function has been asked about a name
Asked == pc = "filter" /\ call.i # 0
\* ... and it is the function of the latest preparation
AskedLatest == Asked /\ call.i = Len(outcome)

\* What a filter answers about a name when it is prepared for the model
\* and asked at once
Matches(f, M, name) ==
    Only({ IF p.raised # "" THEN AnswerRaised(p.raised)
           ELSE filter_call(p.function, name) :
           p \in {prepare_filter(f, M)} })

\* NOT(NOT(f)) was given
DoubleNegation(g) ==
    /\ g.k = "object" /\ g.cls = "NOT"
    /\ g.filters[1].k = "object" /\ g.filters[1].cls = "NOT"

\* C22: bound to a model, NOT(NOT(f)) answers about every name what f
\* answers (the same yes or no, or the same exception); AND() of no
\* filters says yes to every name and EITHER() of no filters says no.
C22_FilterAlgebra ==
    AskedLatest
    => /\ DoubleNegation(filters.given)
          => [raised |-> call.raised, value |-> call.value]
                = Matches(filters.given.filters[1].filters[1],
                          outcome[call.i].Model, call.name)
       /\ filters.given \in {AND(<<>>), FilterClass("AND")}
          => call.raised = "" /\ call.value
       /\ filters.given \in {EITHER(<<>>), FilterClass("EITHER")}
          => call.raised = "" /\ ~call.value

\* NOT(NOT(PRIMARY_KEY())) says yes to the primary key of User
C22_Witness ==
    /\ AskedLatest
    /\ filters.given = NOT(NOT(PRIMARY_KEY))
    /\ outcome[call.i].Model = "User"
    /\ call.name = "annotated_int"
    /\ call.value

\* C23: BY_TYPE(types=K, attrs=f) bound to a model says yes exactly to the
\* names that the extraction for K has and that f says yes to, and a name
\* it says yes to is a name BY_TYPE(types=K', attrs=f) says yes to for
\* every kind set K' that includes K.
C23_ByTypeMonotone ==
    AskedLatest /\ filters.given.k = "object" /\ filters.given.cls = "BY_TYPE"
    => /\ call.raised = ""
       /\ call.value
            = (/\ call.name \in NameSet(SingleThreaded(
                        <<outcome[call.i].Model, filters.given.types>>))
               /\ Matches(filters.given.filters[1].filters[1],
                          outcome[call.i].Model, call.name).value)
       /\ \A types \in FilterKinds :
            filters.given.types \subseteq types /\ call.value
            => Matches(BY_TYPE(types, filters.given.filters[1].filters[1]),
                       outcome[call.i].Model, call.name) = Answer(TRUE)

\* C30: a function that prepare_filter_function(filter, A) returned goes on
\* answering what the filter answers for A, whatever the filter is
\* prepared for afterwards.
C30_PreparedFunctionKeepsItsModel ==
    Asked
    => [raised |-> call.raised, value |-> call.value]
         = Matches(filters.given, outcome[call.i].Model, call.name)

---------------------------------------------------------------------------
(* attribute_info.py: copies of a descriptor that refer to another type.   *)
(* A method gives [new, self]: the object it returns and the object it was *)
(* called on as the call leaves it.                                        *)

\* The attribute a descriptor was extracted from (self.attribute)
info_attribute(self) ==
    class_getattr(Class(self.attribute[1]), self.attribute[2])

\* RelationshipInfo._wrap_value_type_with_collection_class(prop, ...)
RelationshipInfo_wrap(prop, collection_class, value_type) ==
    IF prop.uselist
    THEN wrap_type_into_collection_class(value_type, collection_class)
    ELSE <<"", value_type>>

\* RelationshipInfo.replace_model() assigning to self instead of a copy
RelationshipInfo_replace_model_InPlace(self, Model_) ==
    Only({ [new |-> new, self |-> new] :
           new \in {[self EXCEPT
                       !.target_model = Model_,
                       !.value_type =
                          RelationshipInfo_wrap(info_attribute(self),
                               self.collection_class, Type(Model_))[2]]} })

\* RelationshipInfo.replace_model(Model): new = copy(self), then the
\* assignments to new
RelationshipInfo_replace_model(self, Model_) ==
    [new |-> [self EXCEPT
                !.target_model = Model_,
                !.value_type =
                   RelationshipInfo_wrap(info_attribute(self),
                        self.collection_class, Type(Model_))[2]],
     self |-> self]

\* AssociationProxyInfo.replace_model(Model)
AssociationProxyInfo_replace_model(self, Model_) ==
    [new |-> [self EXCEPT
                !.target_model = Model_,
                !.value_type =
                   AssociationProxyInfo_wrap(Model_,
                        get_type_from_sqlalchemy_type(
                            info_attribute(self).sa_type),
                        self.collection_class)[2]],
     self |-> self]

\* CompositeInfo.replace_value_type(value_type)
CompositeInfo_replace_value_type(self, value_type) ==
    [new |-> [self EXCEPT !.value_type = value_type], self |-> self]

\* The method of a descriptor that makes the copy for the type T
replace(self, T) ==
    CASE self.cls \in {"RelationshipInfo", "DynamicLoaderInfo"} ->
            RelationshipInfo_replace_model(self, T)
      [] self.cls = "AssociationProxyInfo" ->
            AssociationProxyInfo_replace_model(self, T)
      [] self.cls = "CompositeInfo" ->
            CompositeInfo_replace_value_type(self, Type(T))

\* The types a converter puts in place of a mapped class
Substitutes == {"ArticleSchema", "ForwardRef"}

\* The calls of sa_model_info() of a process that derives copies
DeriveCalls ==
    {<<"User", ALL, {}>>, <<"User", RELATIONSHIP, {}>>,
     <<"JTI_Employee", ALL, {}>>, <<"User", ALL, {"articles_list"}>>}

\* The cached dict under key, with the object under name as it is now
WithObject(entries, key, name, obj) ==
    [j \in DOMAIN entries |->
        IF entries[j].key # key THEN entries[j]
        ELSE Entry(key, [k \in DOMAIN entries[j].value |->
                            IF entries[j].value[k].name = name
                            THEN Attr(name, obj)
                            ELSE entries[j].value[k]])]

\* info = sa_model_info(...)[name]; info.replace_model(T), or
\* info.replace_value_type(T) for a composite: the dict that sa_model_info()
\* returned holds the objects of the cached dict
Derive(i, T) ==
    /\ pc = "inspected"
    /\ call.f = "_sa_model_info"
    /\ outcome.raised = ""
    /\ ncalls < MaxCalls
    /\ i \in DOMAIN outcome.value
    /\ outcome.value[i].value.cls \in
          {"RelationshipInfo", "DynamicLoaderInfo", "AssociationProxyInfo",
           "CompositeInfo"}
    /\ \E r \in {replace(outcome.value[i].value, T)} :
          /\ cache' = Put(cache, "_sa_model_info",
                          WithObject(cache["_sa_model_info"], call.key,
                                     outcome.value[i].name, r.self))
          /\ outcome' = [raised |-> "", value |-> r.new, ran |-> <<>>]
    /\ call' = [f |-> "replace_model", key |-> call.key,
                args |-> <<outcome.value[i].name, T>>,
                known |-> TRUE, repeats |-> FALSE]
    /\ ncalls' = ncalls + 1
    /\ pc' = "derived"
    /\ UNCHANGED <<dict_, computed, first>>
    /\ UNCHANGED moreVars

NextDerive ==
    \/ \E c \in DeriveCalls : ModelInfo(c[1], c[2], c[3])
    \/ \E i \in 1..Len(SortedNames), T \in Substitutes : Derive(i, T)

SpecDerive == Init /\ [][NextDerive]_vars

\* What _sa_model_info(Model, types) extracts, computed anew
Extracted_(key) ==
    Extraction(info_classes(all_implementations, key[2]),
               all_model_attributes(key[1]), 1, key[2], <<>>).value

\* T in the collection of a value type
Rewrapped(value_type, T) ==
    CASE Head(value_type) = "List" -> <<"List", T>>
      [] Head(value_type) = "Set" -> <<"Set", T>>
      [] Head(value_type) = "Dict" -> <<"Dict", "Any", T>>
      [] OTHER -> <<T>>

\* C24: replace_model() and replace_value_type() return a copy and leave
\* the descriptor they are called on, and so every cached extraction
\* result, as extracted; the copy of a relationship has target_model = M
\* and value_type = M in the collection of the original (List, Set or Dict
\* for to-many, bare M for to-one), and its other fields are the original's
C24_ReplaceReturnsCopy ==
    /\ \A j \in DOMAIN Entries([cache |-> cache], "_sa_model_info") :
          cache["_sa_model_info"][j].value
              = Extracted_(cache["_sa_model_info"][j].key)
    /\ pc = "derived" =>
          \E orig \in {Find(Extracted_(call.key), call.args[1])} :
             CASE orig.cls \in {"RelationshipInfo", "DynamicLoaderInfo"} ->
                     /\ outcome.value =
                           [orig EXCEPT
                              !.target_model = call.args[2],
                              !.value_type =
                                 Rewrapped(orig.value_type, call.args[2])]
                     /\ orig.uselist <=>
                           Head(orig.value_type) \in {"List", "Set", "Dict"}
               [] orig.cls = "CompositeInfo" ->
                     outcome.value =
                        [orig EXCEPT !.value_type = <<call.args[2]>>]
               [] OTHER ->
                     /\ outcome.value.target_model = call.args[2]
                     /\ [outcome.value EXCEPT
                            !.target_model = orig.target_model,
                            !.value_type = orig.value_type] = orig

\* A copy of the to-many relationship User.articles_set (a set) and one of
\* a to-one relationship have been made
C24_Witness ==
    /\ pc = "derived"
    /\ call.args[1] = "articles_set"
    /\ outcome.value.value_type = <<"Set", "ArticleSchema">>
    /\ outcome.value.target_model = "ArticleSchema"
    /\ Find(CachedValue([cache |-> cache], "_sa_model_info", call.key),
            "articles_set").target_model = "Article"

---------------------------------------------------------------------------
(* wrap_type_into_collection_class() as a function of its arguments: a     *)
(* process that calls it once, with a target type and a collection class   *)
(* of any kind a relationship may be given.                                *)

\* The target types
WrapTargets ==
    {Type(M) : M \in {"Article", "User", "Number", "JTI_Company",
                      "ArticleSchema", "ForwardRef"}}
\* The collection classes: classes and callables
CollectionClasses ==
    {"list", "set", "dict", "MappedCollection", "OrderingList",
     "attribute_mapped_collection", "mapped_collection", "ordering_list",
     "ListLike", "make_listlike", "KeyedList", "make_nothing"}

InitWrap ==
    /\ dict_ = Fresh
    /\ pc = "wrap"
    /\ \E value_type \in WrapTargets, collection_class \in CollectionClasses :
          call = [f |-> "wrap_type_into_collection_class",
                  args |-> <<value_type, collection_class>>]
    /\ outcome = NoOutcome
    /\ cache = NoCache
    /\ computed = {}
    /\ first = NoCache
    /\ ncalls = 0
    /\ threads = NoThreads
    /\ filters = NoFilters
    /\ state_info = NoStateInfo

\* wrap_type_into_collection_class(value_type, collection_class)
Wrap ==
    /\ pc = "wrap"
    /\ outcome' = wrap_type_call(call.args[1], call.args[2], RecursionLimit)
    /\ pc' = "wrapped"
    /\ UNCHANGED <<dict_, call, cache, computed, first, ncalls>>
    /\ UNCHANGED moreVars

NextWrap == Wrap

SpecWrap == InitWrap /\ [][NextWrap]_vars

\* The collection a class or the result of a callable is: a list, a set, a
\* mapping, or none of them ("")
CollectionKind(collection_class) ==
    CASE collection_class \in {"list", "OrderingList", "ordering_list"} ->
            "list"
      [] collection_class = "set" -> "set"
      [] collection_class \in {"dict", "MappedCollection",
                               "attribute_mapped_collection",
                               "mapped_collection"} -> "dict"
      [] OTHER -> ""
\* The collection classes that are list, set or mapping classes themselves
CollectionTypes == {"list", "set", "dict", "MappedCollection", "OrderingList"}

\* The call returns, with List, Set or Dict of the target for a list, set
\* or mapping class or a callable that makes one, and the union of
\* List[target] and Dict[Any, target] without a default factory otherwise
WrapClassifies ==
    pc = "wrapped" =>
       /\ outcome.raised = ""
       /\ outcome.ret =
             CASE CollectionKind(call.args[2]) = "list" ->
                     <<"list", <<"List">> \o call.args[1]>>
               [] CollectionKind(call.args[2]) = "set" ->
                     <<"set", <<"Set">> \o call.args[1]>>
               [] CollectionKind(call.args[2]) = "dict" ->
                     <<"dict", <<"Dict", "Any">> \o call.args[1]>>
               [] OTHER ->
                     <<"", <<"Union", "List">> \o call.args[1]
                              \o <<"Dict", "Any">> \o call.args[1]>>

\* C28: wrap_type_into_collection_class terminates for every
\* collection_class; list, set and mapping classes give List, Set and Dict
\* of the target; any other callable is instantiated once, without
\* arguments, and classified by the type of its result; when the call fails
\* or the result is none of list, set or mapping, the value type is
\* Union[List[target], Dict[Any, target]] with no default factory, reached
\* without further instantiation attempts
C28_WrapInstantiatesOnce ==
    /\ WrapClassifies
    /\ pc = "wrapped" =>
          outcome.calls = IF call.args[2] \in CollectionTypes THEN <<>>
                          ELSE <<call.args[2]>>

---------------------------------------------------------------------------
(* info/property.py: @loads_attributes.  A getter is its first parameter   *)
(* name, the statements of its body and the attributes set on the function *)
(* object.  The statements are                                             *)
(*   <<"load", x>>     first.x           <<"chain", x, y>>  first.x.y      *)
(*   <<"other", x>>    obj.x             <<"store", x>>     first.x = None *)
(*   <<"getattr", x>>  getattr(first, 'x')                                 *)
(* and dis.get_instructions() gives what CPython compiles them to.         *)

\* Statements of a getter
MaxStatements == 2

AttributeNames_ == {"a", "b", "c"}
Statements ==
    {<<"load", "a">>, <<"load", "b">>, <<"chain", "a", "b">>,
     <<"other", "a">>, <<"store", "c">>, <<"getattr", "a">>}
RECURSIVE Bodies(_)
Bodies(n) ==
    IF n = 0 THEN {<<>>}
    ELSE Bodies(n - 1)
         \cup {Append(body, s) : body \in Bodies(n - 1), s \in Statements}
Getter(first_arg, body) ==
    [first_arg |-> first_arg, body |-> body, attrs |-> [k \in {} |-> {}]]

Instruction(opname, argval) == [opname |-> opname, argval |-> argval]
\* The instructions of one statement
Compiled(first_arg, s) ==
    CASE s[1] = "load" ->
            <<Instruction("LOAD_FAST", first_arg),
              Instruction("LOAD_ATTR", s[2]), Instruction("POP_TOP", "")>>
      [] s[1] = "chain" ->
            <<Instruction("LOAD_FAST", first_arg),
              Instruction("LOAD_ATTR", s[2]), Instruction("LOAD_ATTR", s[3]),
              Instruction("POP_TOP", "")>>
      [] s[1] = "other" ->
            <<Instruction("LOAD_FAST", "obj"),
              Instruction("LOAD_ATTR", s[2]), Instruction("POP_TOP", "")>>
      [] s[1] = "store" ->
            <<Instruction("LOAD_CONST", "None"),
              Instruction("LOAD_FAST", first_arg),
              Instruction("STORE_ATTR", s[2])>>
      [] s[1] = "getattr" ->
            <<Instruction("LOAD_GLOBAL", "getattr"),
              Instruction("LOAD_FAST", first_arg),
              Instruction("LOAD_CONST", s[2]),
              Instruction("CALL_FUNCTION", "2"), Instruction("POP_TOP", "")>>
\* dis.get_instructions(func): the statements, then `return None`
RECURSIVE get_instructions_from(_, _)
get_instructions_from(func, i) ==
    IF i > Len(func.body)
    THEN <<Instruction("LOAD_CONST", "None"), Instruction("RETURN_VALUE", "")>>
    ELSE Compiled(func.first_arg, func.body[i])
         \o get_instructions_from(func, i + 1)
get_instructions(func) == get_instructions_from(func, 1)

\* code_uses_attributes(code, object_name): what the generator yields
code_uses_attributes(code, object_name) ==
    Only({ SelectSeq([i \in DOMAIN instructions |->
                        IF /\ instructions[i].opname
                                 \in {"LOAD_ATTR", "STORE_ATTR"}
                           /\ i > 1
                           /\ instructions[i - 1].opname = "LOAD_FAST"
                           /\ instructions[i - 1].argval = object_name
                        THEN instructions[i].argval ELSE ""],
                     LAMBDA name : name # "") :
           instructions \in {get_instructions(code)} })

\* func_uses_attributes(func)
func_uses_attributes(func) == code_uses_attributes(func, func.first_arg)

\* loads_attributes(*attribute_names, check=check)(fget): what it raises
\* and the function object afterwards; optimize tells whether the
\* interpreter runs with -O, which compiles assert statements away
loads_attributes(attribute_names, check, fget, optimize) ==
    IF /\ check
       /\ ~optimize
       /\ (Range(func_uses_attributes(fget)) \ attribute_names)
             \cup (attribute_names \ Range(func_uses_attributes(fget))) # {}
    THEN [raised |-> "AssertionError", fget |-> fget]
    ELSE [raised |-> "",
          fget |-> [fget EXCEPT !.attrs =
                        Put(@, "_loads_attributes", attribute_names)]]

\* get_property_loads_attribute_names(prop), which PropertyInfo.extract()
\* stores as loads_attributes: the set, or None
get_property_loads_attribute_names(fget) ==
    IF "_loads_attributes" \in DOMAIN fget.attrs
    THEN [none |-> FALSE, names |-> fget.attrs["_loads_attributes"]]
    ELSE [none |-> TRUE, names |-> {}]

InitDecorate ==
    /\ dict_ = Fresh
    /\ pc = "decorate"
    /\ \E names \in SUBSET AttributeNames_, check \in BOOLEAN,
          first_arg \in {"self", "this"}, body \in Bodies(MaxStatements),
          optimize \in BOOLEAN :
          call = [f |-> "loads_attributes",
                  args |-> <<names, check, Getter(first_arg, body)>>,
                  optimize |-> optimize]
    /\ outcome = NoOutcome
    /\ cache = NoCache
    /\ computed = {}
    /\ first = NoCache
    /\ ncalls = 0
    /\ threads = NoThreads
    /\ filters = NoFilters
    /\ state_info = NoStateInfo

\* @loads_attributes(*names, check=check) above a getter, when the class
\* body runs
Decorate ==
    /\ pc = "decorate"
    /\ outcome' = loads_attributes(call.args[1], call.args[2], call.args[3],
                                   call.optimize)
    /\ pc' = "decorated"
    /\ UNCHANGED <<dict_, call, cache, computed, first, ncalls>>
    /\ UNCHANGED moreVars

NextDecorate == Decorate

SpecDecorate == InitDecorate /\ [][NextDecorate]_vars

\* The names of the attributes of its own object that a getter reads
OwnReads(func) ==
    {func.body[i][2] :
        i \in {j \in DOMAIN func.body :
                  func.body[j][1] \in {"load", "chain", "getattr"}}}

\* loads_attributes() with check=True under an interpreter that keeps
\* assert statements: it raises exactly when the declared names differ from
\* the names loaded or stored directly on the first parameter, and marks
\* the getter with the declared names otherwise
DecorateChecksAnalyzedSet ==
    (pc = "decorated" /\ call.args[2] /\ ~call.optimize) =>
       /\ outcome.raised # ""
             <=> call.args[1] # Range(func_uses_attributes(call.args[3]))
       /\ get_property_loads_attribute_names(outcome.fget)
             = IF outcome.raised # "" THEN [none |-> TRUE, names |-> {}]
               ELSE [none |-> FALSE, names |-> call.args[1]]

\* C26: loads_attributes(*names) applied to a getter raises at decoration
\* time exactly when the declared names differ from the own-attribute names
\* the getter's code reads, and then leaves the getter unmarked; when the
\* two sets agree the getter is marked with exactly the declared set, which
\* extraction reports as loads_attributes
C26_RaisesExactlyOnMismatch ==
    (pc = "decorated" /\ call.args[2]) =>
       /\ outcome.raised # "" <=> call.args[1] # OwnReads(call.args[3])
       /\ get_property_loads_attribute_names(outcome.fget)
             = IF call.args[1] # OwnReads(call.args[3])
               THEN [none |-> TRUE, names |-> {}]
               ELSE [none |-> FALSE, names |-> call.args[1]]

\* The same for getters that touch their object by plain reads only
\* (first.x, first.x.y), where the names read are the names analyzed: what
\* an interpreter run with -O does not keep
PlainReadsRaiseOnMismatch ==
    (/\ pc = "decorated"
     /\ call.args[2]
     /\ \A i \in DOMAIN call.args[3].body :
           call.args[3].body[i][1] \in {"load", "chain", "other"}) =>
       /\ outcome.raised # "" <=> call.args[1] # OwnReads(call.args[3])
       /\ get_property_loads_attribute_names(outcome.fget)
             = IF call.args[1] # OwnReads(call.args[3])
               THEN [none |-> TRUE, names |-> {}]
               ELSE [none |-> FALSE, names |-> call.args[1]]

---------------------------------------------------------------------------
(* to/pydantic: from_orm() of the schema classes.  The instances are those *)
(* of the pluck engine above (u with articles a1, a2 whose author is u).   *)
(* A call runs in st: d (the instances' __dict__), log (what happened, in  *)
(* order), info (InstanceState.info of every instance: the schema classes  *)
(* whose marker key is there, and which set object is under the            *)
(* SALoadedGetterDict key, 0 for none) and heap (the set objects).         *)

\* Top-level from_orm() calls of a process
MaxParses == 2

\* The schema classes: pd_* derive from SAModel, pdl_* from SALoadedModel
SchemaBase(C) ==
    IF C \in {"pd_User", "pd_Article"} THEN "SAModel" ELSE "SALoadedModel"
\* A field: its name, the schema class of a relationship field ("" for a
\* plain value), and whether None is refused
Field(name, schema, required) ==
    [name |-> name, schema |-> schema, required |-> required]
\* __fields__ of a schema class, in order
SchemaFields(C) ==
    CASE C = "pd_User" ->
            <<Field("id", "", FALSE), Field("articles", "pd_Article", FALSE)>>
      [] C = "pd_Article" ->
            <<Field("title", "", FALSE), Field("author", "pd_User", FALSE)>>
      [] C = "pdl_User" ->
            <<Field("id", "", FALSE), Field("meta", "", FALSE),
              Field("prop", "", FALSE), Field("shout", "", FALSE),
              Field("articles", "pdl_Article", FALSE)>>
      [] C = "pdl_Article" ->
            <<Field("title", "", FALSE), Field("author", "pdl_User", FALSE)>>
      [] C = "pdl_Feed" ->
            <<Field("meta", "", FALSE), Field("articles", "pdl_Post", FALSE)>>
      [] C = "pdl_Post" ->
            <<Field("title", "", FALSE), Field("author", "pdl_Author", FALSE)>>
      [] C = "pdl_Author" ->
            <<Field("id", "", TRUE)>>

\* A schema object: the values of its fields and __fields_set__
PyModel(C, values, fields_set) ==
    [t |-> "model", n |-> 0, s |-> C, items |-> values,
     fields_set |-> fields_set]

\* get_all_safely_loadable_properties(Model): {property => the names given
\* to @loads_attributes}.  User.shout is declared to read 'id', and does;
\* User.prop declares nothing
get_all_safely_loadable_properties(M) ==
    IF M = "User" THEN [shout |-> {"id"}] ELSE [k \in {} |-> {}]

\* loaded_attribute_names(state)
loaded_attribute_names(instance, st) == DOMAIN st.d[instance]

\* GetterDict.get(key, default): getattr(self._obj, key, default)
GetterDict_get(instance, key, st) ==
    Only({ IF key = "shout" THEN InstrumentedGet(instance, "id", read)
           ELSE Only({ IF r.raised = "AttributeError"
                       THEN Value(None, r.st) ELSE r :
                       r \in {getattr(instance, key, read)} }) :
           read \in {[st EXCEPT !.log =
                         Append(@, Event("read", instance, key))]} })

\* SALoadedGetterDict(obj): the getter, and st with a new set under
\* state.info[SALoadedGetterDict]
SALoadedGetterDict_init(instance, st) ==
    [getter |-> [obj |-> instance,
                 loaded |-> loaded_attribute_names(instance, st),
                 safe_properties |->
                    get_all_safely_loadable_properties(Model(instance)),
                 excluded |-> Len(st.heap) + 1],
     st |-> [st EXCEPT !.heap = Append(@, {}),
                       !.info[instance].excluded = Len(st.heap) + 1]]

\* SALoadedGetterDict.get(key, default)
SALoadedGetterDict_get(getter, key, st) ==
    IF \/ key \in getter.loaded
       \/ /\ key \in DOMAIN getter.safe_properties
          /\ getter.safe_properties[key] \subseteq getter.loaded
    THEN GetterDict_get(getter.obj, key, st)
    ELSE Value(None, [st EXCEPT !.heap[getter.excluded] = @ \cup {key}])

\* SALoadedGetterDict.get_names_excluded_from(obj)
get_names_excluded_from(instance, st) == st.heap[st.info[instance].excluded]

\* `marker_key in state.info` never found true
being_parsed_Never(marker_key, info) == FALSE
\* `marker_key in state.info`
being_parsed(marker_key, info) == marker_key \in info.markers

\* The exit of prevent_model_recursion() with the marker deleted only when
\* the body has returned
prevent_model_recursion_exit_OnReturn(raised, marker_key, info) ==
    IF raised # "" THEN info
    ELSE [info EXCEPT !.markers = @ \ {marker_key}]
\* The exit of prevent_model_recursion(): `finally: del
\* state.info[marker_key]`
prevent_model_recursion_exit(raised, marker_key, info) ==
    [info EXCEPT !.markers = @ \ {marker_key}]

RECURSIVE from_orm(_, _, _, _)

\* The items of a collection given to a field of schema class C: every item
\* is validated, an item that fails makes the field fail
RECURSIVE validate_each(_, _, _, _, _, _, _)
validate_each(C, items, i, acc, failed, st, frames) ==
    IF i > Len(items)
    THEN IF failed THEN Raised("ValidationError", st)
         ELSE Value(PyList(acc), st)
    ELSE Only({ IF r.raised = "ValidationError"
                THEN validate_each(C, items, i + 1, acc, TRUE, r.st, frames)
                ELSE IF r.raised # "" THEN r
                ELSE validate_each(C, items, i + 1, Append(acc, r.value),
                                   failed, r.st, frames) :
                r \in {from_orm(C, items[i].s, st, frames)} })

\* ModelField.validate(value): None is refused by a required field and
\* passes otherwise; an object given to a field of a schema class goes
\* through that class's from_orm(), and what it returns is the value
validate_field(field, value, st, frames) ==
    IF IsNone(value)
    THEN IF field.required THEN Raised("ValidationError", st)
         ELSE Value(None, st)
    ELSE IF field.schema = "" THEN Value(value, st)
    ELSE IF IsList(value)
    THEN validate_each(field.schema, value.items, 1, <<>>, FALSE, st, frames)
    ELSE from_orm(field.schema, value.s, st, frames)

\* validate_model(cls, getter) from field i on: the value of every field is
\* taken with getter.get() and validated; the errors are raised together
\* at the end
RECURSIVE validate_model(_, _, _, _, _, _, _, _)
validate_model(C, getter, i, values, fields_set, failed, st, frames) ==
    IF i > Len(SchemaFields(C))
    THEN IF failed THEN Raised("ValidationError", st)
         ELSE Value(PyModel(C, values, fields_set), st)
    ELSE Only({
           IF got.raised # "" THEN got
           ELSE Only({
                  IF v.raised = "ValidationError"
                  THEN validate_model(C, getter, i + 1, values,
                           fields_set \cup {SchemaFields(C)[i].name}, TRUE,
                           v.st, frames)
                  ELSE IF v.raised # "" THEN v
                  ELSE validate_model(C, getter, i + 1,
                           Append(values,
                                  Item(SchemaFields(C)[i].name, v.value)),
                           fields_set \cup {SchemaFields(C)[i].name}, failed,
                           v.st, frames) :
                  v \in {validate_field(SchemaFields(C)[i], got.value,
                                        got.st, frames)} }) :
           got \in {IF SchemaBase(C) = "SALoadedModel"
                    THEN SALoadedGetterDict_get(getter,
                             SchemaFields(C)[i].name, st)
                    ELSE GetterDict_get(getter.obj,
                             SchemaFields(C)[i].name, st)} })

\* pydantic's BaseModel.from_orm(obj): Config.getter_dict(obj), then
\* validate_model()
BaseModel_from_orm(C, instance, st, frames) ==
    IF SchemaBase(C) = "SALoadedModel"
    THEN Only({ validate_model(C, g.getter, 1, <<>>, {}, FALSE, g.st, frames) :
                g \in {SALoadedGetterDict_init(instance, st)} })
    ELSE validate_model(C, [obj |-> instance], 1, <<>>, {}, FALSE, st,
                        frames)

\* NoneRecursiveParserMixin.from_orm(obj) inside prevent_model_recursion()
NoneRecursiveParserMixin_from_orm(C, instance, st, frames) ==
    IF being_parsed(C, st.info[instance])
    THEN Value(None, [st EXCEPT !.log = Append(@, Event("none", instance, C))])
    ELSE Only({ [r EXCEPT
                   !.st.info[instance] =
                       prevent_model_recursion_exit(r.raised, C, @),
                   !.st.log = Append(@, Event("exit", instance, C))] :
                r \in {BaseModel_from_orm(C, instance,
                         [st EXCEPT
                            !.info[instance].markers = @ \cup {C},
                            !.log = Append(@, Event("enter", instance, C))],
                         frames)} })

\* SALoadedModel.from_orm(obj)
SALoadedModel_from_orm(C, instance, st, frames) ==
    Only({ IF r.raised # "" \/ IsNone(r.value) THEN r
           ELSE [r EXCEPT !.value.fields_set =
                             @ \ get_names_excluded_from(instance, r.st)] :
           r \in {NoneRecursiveParserMixin_from_orm(C, instance, st, frames)} })

\* cls.from_orm(obj), with frames left before the interpreter raises
\* RecursionError
from_orm(C, instance, st, frames) ==
    IF frames = 0 THEN Raised("RecursionError", st)
    ELSE IF SchemaBase(C) = "SALoadedModel"
    THEN SALoadedModel_from_orm(C, instance, st, frames - 1)
    ELSE NoneRecursiveParserMixin_from_orm(C, instance, st, frames - 1)

---------------------------------------------------------------------------
(* A process that loads attributes and converts instances.                 *)

InstanceOrder == <<"u", "a1", "a2">>
\* The state a top-level call starts in: the set under an instance's
\* SALoadedGetterDict key is an object of the heap
Entered(d, info) ==
    [d |-> d, log |-> <<>>, calls |-> 0,
     heap |-> [i \in 1..Len(InstanceOrder) |->
                  info[InstanceOrder[i]].excluded.names],
     info |-> [o \in Instances |->
                 [markers |-> info[o].markers,
                  excluded |->
                     IF info[o].excluded.present
                     THEN CHOOSE i \in 1..Len(InstanceOrder) :
                             InstanceOrder[i] = o
                     ELSE 0]]]
\* InstanceState.info as a call leaves it
Left(st) ==
    [o \in Instances |->
        [markers |-> st.info[o].markers,
         excluded |->
            IF st.info[o].excluded = 0
            THEN [present |-> FALSE, names |-> {}]
            ELSE [present |-> TRUE,
                  names |-> st.heap[st.info[o].excluded]]]]

\* The attributes a process loads
Loadable ==
    {<<"u", "id">>, <<"u", "meta">>, <<"u", "articles">>,
     <<"a1", "title">>, <<"a1", "author">>, <<"a2", "title">>}
\* The top-level calls: <<schema class, instance>>
FromOrmCalls ==
    {<<"pd_User", "u">>, <<"pd_Article", "a1">>, <<"pdl_User", "u">>,
     <<"pdl_Article", "a1">>, <<"pdl_Feed", "u">>, <<"pdl_Author", "u">>}

\* C.from_orm(instance), from the call to its return or raise
FromOrm(C, instance) ==
    /\ pc = "idle"
    /\ ncalls < MaxParses
    /\ \E r \in {from_orm(C, instance, Entered(dict_, state_info),
                          RecursionLimit)} :
          /\ dict_' = r.st.d
          /\ state_info' = Left(r.st)
          /\ outcome' = [raised |-> r.raised, ret |-> r.value,
                         log |-> r.st.log, calls |-> 0]
          /\ first' = IF <<C, instance>> \in DOMAIN first THEN first
                      ELSE Put(first, <<C, instance>>,
                               [raised |-> r.raised, value |-> r.value,
                                n |-> ncalls + 1])
    /\ call' = [f |-> "from_orm", cls |-> C, instance |-> instance,
                pre |-> dict_]
    /\ ncalls' = ncalls + 1
    /\ pc' = "called"
    /\ UNCHANGED <<cache, computed, threads, filters>>

NextOrm ==
    \/ \E sk \in Loadable : SetCommitted(sk[1], sk[2], Row(sk[1])[sk[2]])
    \/ \E c \in FromOrmCalls : FromOrm(c[1], c[2])
    \/ Discard

SpecOrm == Init /\ [][NextOrm]_vars

---------------------------------------------------------------------------
(* Properties of from_orm().                                               *)

\* A key the loaded getter may read from an instance whose __dict__ is d:
\* a loaded attribute, or a property whose declared attributes are loaded
SafelyReadable(instance, key, d) ==
    \/ key \in DOMAIN d[instance]
    \/ /\ key \in DOMAIN get_all_safely_loadable_properties(Model(instance))
       /\ get_all_safely_loadable_properties(Model(instance))[key]
             \subseteq DOMAIN d[instance]

\* A call of a SALoadedModel class that has returned a schema object
LoadedParsed ==
    /\ pc = "called"
    /\ SchemaBase(call.cls) = "SALoadedModel"
    /\ outcome.raised = ""

\* The loaded getter evaluates nothing but what is safely readable: every
\* read of the call, on the instance and on those below it, is of a loaded
\* attribute or of a property whose declared attributes are loaded, and
\* nothing is fetched
LoadedGetterReadsSafely ==
    LoadedParsed =>
       \A i \in DOMAIN outcome.log :
          /\ outcome.log[i].e # "fetch"
          /\ outcome.log[i].e = "read" =>
                SafelyReadable(outcome.log[i].o, outcome.log[i].k, call.pre)

\* The fields of the returned object that were not safely readable are
\* None and are not among its set fields, and the others are set
ExcludedFieldsUnset ==
    \A i \in DOMAIN SchemaFields(call.cls) :
       IF SafelyReadable(call.instance, SchemaFields(call.cls)[i].name,
                         call.pre)
       THEN SchemaFields(call.cls)[i].name \in outcome.ret.fields_set
       ELSE /\ IsNone(Get(outcome.ret, SchemaFields(call.cls)[i].name))
            /\ SchemaFields(call.cls)[i].name \notin outcome.ret.fields_set

\* The same for the calls under which the instance is not converted again
\* by another schema class
ExcludedFieldsUnsetWithoutReentry ==
    (LoadedParsed /\ call.cls # "pdl_Feed") => ExcludedFieldsUnset

\* C25: SALoadedGetterDict reads a key from the object only if it is a
\* loaded attribute or a property that declares what it reads with all of
\* it loaded; for every other key it returns the empty value without
\* evaluating anything and records the key as excluded, and
\* SALoadedModel.from_orm removes the excluded keys from the set fields
C25_LoadedGetterExcludesUnloaded ==
    /\ LoadedGetterReadsSafely
    /\ LoadedParsed => ExcludedFieldsUnset

\* The (instance, class) pairs being parsed when event i happens
Active(log, i) ==
    {<<log[j].o, log[j].k>> :
        j \in {j \in 1..(i - 1) :
                 /\ log[j].e = "enter"
                 /\ ~\E m \in (j + 1)..(i - 1) :
                       /\ log[m].e = "exit"
                       /\ log[m].o = log[j].o
                       /\ log[m].k = log[j].k}}

\* C27: while from_orm of class C is parsing x, a nested from_orm of C on x
\* returns None instead of parsing x again (and None is returned for no
\* other reason), so the conversion of a graph with bidirectional
\* relationships ends without RecursionError and every article of a
\* converted user has None for its author
C27_NestedFromOrmReturnsNone ==
    pc = "called" =>
       /\ outcome.raised # "RecursionError"
       /\ \A i \in DOMAIN outcome.log :
             /\ outcome.log[i].e = "enter" =>
                   <<outcome.log[i].o, outcome.log[i].k>>
                       \notin Active(outcome.log, i)
             /\ outcome.log[i].e = "none" =>
                   <<outcome.log[i].o, outcome.log[i].k>>
                       \in Active(outcome.log, i)
       /\ (/\ outcome.raised = ""
           /\ call.cls \in {"pd_User", "pdl_User"}
           /\ IsList(Get(outcome.ret, "articles"))) =>
             \A i \in DOMAIN Get(outcome.ret, "articles").items :
                IsNone(Get(Get(outcome.ret, "articles").items[i], "author"))

\* A user with two articles has been converted by an SAModel class, and
\* the nested conversion of the user was cut short
C27_Witness ==
    /\ pc = "called"
    /\ call.cls = "pd_User"
    /\ outcome.raised = ""
    /\ Len(Get(outcome.ret, "articles").items) = 2
    /\ \E i \in DOMAIN outcome.log :
          outcome.log[i] = Event("none", "u", "pd_User")

\* C29: after a from_orm call has returned or raised, no instance holds an
\* in-progress marker, whatever the exit path; so a later top-level
\* from_orm of the same class on the same instance parses it and does not
\* return None
C29_MarkerRemovedOnEveryExit ==
    /\ \A o \in Instances : state_info[o].markers = {}
    /\ (pc = "called" /\ outcome.raised = "") => ~IsNone(outcome.ret)

\* A from_orm call has raised a validation error (from a nested from_orm),
\* and the next call of the same class on the same instance has parsed it
C29_Witness ==
    /\ pc = "called"
    /\ <<call.cls, call.instance>> \in DOMAIN first
    /\ first[<<call.cls, call.instance>>].raised = "ValidationError"
    /\ first[<<call.cls, call.instance>>].n < ncalls
    /\ outcome.raised = ""
    /\ outcome.ret.t = "model"
    /\ \E i \in DOMAIN outcome.log : outcome.log[i].e = "exit"

===========================================================================
